---- MODULE Spec2Model ----
(***************************************************************************)
(* The CJK paragraph-reflow engine of opencc_pyo3.                         *)
(*                                                                         *)
(* A string is a sequence of Unicode code points (chars are integers), so  *)
(* that range tests such as is_cjk_bmp are computed as the code computes   *)
(* them.  The repository carries two copies of the engine: the one that is *)
(* compiled into the Python module (src/lib.rs) and the extracted engine   *)
(* (src/reflow_helper.rs).  The variable `engine` says which copy a        *)
(* behaviour runs; definitions whose code differs between the two copies   *)
(* carry the suffix _lib or _helper, the others are shared.                *)
(***************************************************************************)
EXTENDS Integers, Sequences, FiniteSets, TLC

\* ------------------------------------------------------------------------
\* Bounds of the model
\* ------------------------------------------------------------------------

\* The longest input, in lines.
MaxLines == 3

\* ------------------------------------------------------------------------
\* std string primitives (char::is_whitespace, str::trim, ...)
\* ------------------------------------------------------------------------

\* The least and the greatest element of a non-empty set of integers.
MinOf(S) == CHOOSE x \in S : \A y \in S : x <= y
MaxOf(S) == 0 - MinOf({0 - x : x \in S})

\* char::is_whitespace: the Unicode White_Space property.
is_whitespace(ch) ==
    \/ ch \in 9..13
    \/ ch \in {32, 133, 160, 5760, 8232, 8233, 8239, 8287, 12288}
    \/ ch \in 8192..8202

is_ascii_digit(ch) == ch \in 48..57
is_ascii_alphabetic(ch) == ch \in 65..90 \/ ch \in 97..122
is_ascii_alphanumeric(ch) == is_ascii_digit(ch) \/ is_ascii_alphabetic(ch)

\* The positions of s that hold a non-whitespace char.
NonWs(s) == {i \in 1..Len(s) : ~is_whitespace(s[i])}

all_whitespace(s) == NonWs(s) = {}

trim_end(s) == IF NonWs(s) = {} THEN <<>> ELSE SubSeq(s, 1, MaxOf(NonWs(s)))
trim_start(s) == IF NonWs(s) = {} THEN <<>> ELSE SubSeq(s, MinOf(NonWs(s)), Len(s))
trim(s) == trim_start(trim_end(s))

\* s.trim_start_matches(|ch| ch == ' ' || ch == '\u{3000}')
trim_indent(s) ==
    LET keep == {i \in 1..Len(s) : s[i] \notin {32, 12288}}
    IN IF keep = {} THEN <<>> ELSE SubSeq(s, MinOf(keep), Len(s))

starts_with(s, p) == Len(s) >= Len(p) /\ SubSeq(s, 1, Len(p)) = p
ends_with(s, p) == Len(s) >= Len(p) /\ SubSeq(s, Len(s) - Len(p) + 1, Len(s)) = p
contains(s, ch) == \E i \in 1..Len(s) : s[i] = ch
any_in(s, set) == \E i \in 1..Len(s) : s[i] \in set

\* Option<char>: Some(c) is the code point c, U+0000 included; None is a value
\* that is no code point, so that Some('\0') and None are told apart.
None == -1

\* s.chars().rev().find(|c| !c.is_whitespace())
last_non_ws(s) == IF NonWs(s) = {} THEN None ELSE s[MaxOf(NonWs(s))]

\* s.chars().last() / s.chars().next()
last_char(s) == IF s = <<>> THEN None ELSE s[Len(s)]
first_char(s) == IF s = <<>> THEN None ELSE s[1]

\* str::split_whitespace, the tokens of s from position i on.
RECURSIVE split_whitespace_from(_, _)
split_whitespace_from(s, i) ==
    IF i > Len(s) THEN <<>>
    ELSE IF is_whitespace(s[i]) THEN split_whitespace_from(s, i + 1)
    ELSE LET e == MinOf({j \in i..Len(s) : j = Len(s) \/ is_whitespace(s[j + 1])})
         IN <<SubSeq(s, i, e)>> \o split_whitespace_from(s, e + 1)

split_whitespace(s) == split_whitespace_from(s, 1)

\* [String]::join(sep)
RECURSIVE join(_, _)
join(parts, sep) ==
    IF parts = <<>> THEN <<>>
    ELSE IF Len(parts) = 1 THEN parts[1]
    ELSE parts[1] \o sep \o join(Tail(parts), sep)

\* Faulty variant of normalize_eol: only "\r\n" is replaced, a lone '\r' stays.
normalize_eol_crlf_only(s) ==
    LET at == [i \in 1..Len(s) |-> <<i, s[i]>>]
        kept == SelectSeq(at, LAMBDA p : ~(p[2] = 13 /\ p[1] < Len(s) /\ s[p[1] + 1] = 10))
    IN [k \in 1..Len(kept) |-> kept[k][2]]

\* text.replace("\r\n", "\n").replace('\r', "\n"): a '\r' right before a '\n'
\* is dropped, every other '\r' becomes a '\n'.
normalize_eol(s) ==
    LET at == [i \in 1..Len(s) |-> <<i, s[i]>>]
        kept == SelectSeq(at, LAMBDA p : ~(p[2] = 13 /\ p[1] < Len(s) /\ s[p[1] + 1] = 10))
    IN [k \in 1..Len(kept) |-> IF kept[k][2] = 13 THEN 10 ELSE kept[k][2]]

\* normalized.split('\n'): always at least one line.
RECURSIVE split_lines_from(_, _)
split_lines_from(s, i) ==
    LET nl == {j \in i..Len(s) : s[j] = 10}
    IN IF nl = {} THEN <<SubSeq(s, i, Len(s))>>
       ELSE <<SubSeq(s, i, MinOf(nl) - 1)>> \o split_lines_from(s, MinOf(nl) + 1)

split_lines(s) == split_lines_from(s, 1)

\* ------------------------------------------------------------------------
\* Constant tables
\* ------------------------------------------------------------------------

\* 。！？；：…—”」’』）】》〗〔〕〉］｝》.?!
CJK_PUNCT_END_lib == {12290, 65281, 65311, 65307, 65306, 8230, 8212, 8221, 12301, 8217, 12303, 65289, 12305, 12299, 12311, 12308, 12309, 12297, 65341, 65373, 46, 63, 33}

\* Faulty variant of CJK_PUNCT_END_helper: the set lacks ！ and !
CJK_PUNCT_END_helper_without_exclamation ==
    {12290, 65311, 65307, 65306, 8230, 8212, 8221, 12301, 8217, 12303, 65289, 12305, 12299, 12311, 12308, 12309, 12297, 10217, 65341, 65373, 65310, 46, 63}  \* 。 ？ ； ： … — ” 」 ’ 』 ） 】 》 〗 〔 〕 〉 ⟩ ］ ｝ ＞ . ?

\* the same plus ⟩ and ＞
CJK_PUNCT_END_helper == {12290, 65281, 65311, 65307, 65306, 8230, 8212, 8221, 12301, 8217, 12303, 65289, 12305, 12299, 12311, 12308, 12309, 12297, 10217, 65341, 65373, 65310, 46, 63, 33}

\* 】》〗〕〉」』）
CHAPTER_TRAIL_BRACKETS_lib == {12305, 12299, 12311, 12309, 12297, 12301, 12303, 65289}

\* 】》〗〕〉」』）］＞⟩
CHAPTER_TRAIL_BRACKETS_helper == {12305, 12299, 12311, 12309, 12297, 12301, 12303, 65289, 65341, 65310, 10217}

\* 前言 序章 终章 尾声 后记 番外 尾聲 後記
HEADING_KEYWORDS ==
    {<<21069, 35328>>,  \* 前言
     <<24207, 31456>>,  \* 序章
     <<32456, 31456>>,  \* 终章
     <<23614, 22768>>,  \* 尾声
     <<21518, 35760>>,  \* 后记
     <<30058, 22806>>,  \* 番外
     <<23614, 32882>>,  \* 尾聲
     <<24460, 35352>>}  \* 後記

\* 番外
BONUS_PREFIX == <<30058, 22806>>

\* 章 节 部 卷 節 回
CHAPTER_MARKERS == {31456, 33410, 37096, 21367, 31680, 22238}

\* 分 合
INVALID_AFTER_MARKER == {20998, 21512}

\* ， , 。 ！ ？ ；
HEADING_REJECT_PUNCT == {65292, 44, 12290, 65281, 65311, 65307}

\* 一 二 三 四 五 六 七 八 九 十
CJK_NUMERALS == {19968, 20108, 19977, 22235, 20116, 20845, 19971, 20843, 20061, 21313}

\* ： : and the ideographic space U+3000
METADATA_SEPARATORS_lib == {65306, 58, 12288}

\* ： : ・ and the ideographic space U+3000
METADATA_SEPARATORS_helper == {65306, 58, 12539, 12288}

\* 書名 书名 作者 ... ISBN (the two copies hold the same 53 keys)
METADATA_KEYS ==
    {<<26360, 21517>>,  \* 書名
     <<20070, 21517>>,  \* 书名
     <<20316, 32773>>,  \* 作者
     <<35695, 32773>>,  \* 譯者
     <<35793, 32773>>,  \* 译者
     <<26657, 35330>>,  \* 校訂
     <<26657, 35746>>,  \* 校订
     <<20986, 29256, 31038>>,  \* 出版社
     <<20986, 29256, 26178, 38291>>,  \* 出版時間
     <<20986, 29256, 26102, 38388>>,  \* 出版时间
     <<20986, 29256, 26085, 26399>>,  \* 出版日期
     <<29256, 27402>>,  \* 版權
     <<29256, 26435>>,  \* 版权
     <<29256, 27402, 38913>>,  \* 版權頁
     <<29256, 26435, 39029>>,  \* 版权页
     <<29256, 27402, 20449, 24687>>,  \* 版權信息
     <<29256, 26435, 20449, 24687>>,  \* 版权信息
     <<36012, 20219, 32232, 36655>>,  \* 責任編輯
     <<36131, 20219, 32534, 36753>>,  \* 责任编辑
     <<32232, 36655>>,  \* 編輯
     <<32534, 36753>>,  \* 编辑
     <<36012, 32232>>,  \* 責編
     <<36131, 32534>>,  \* 责编
     <<23450, 20729>>,  \* 定價
     <<23450, 20215>>,  \* 定价
     <<21069, 35328>>,  \* 前言
     <<24207, 31456>>,  \* 序章
     <<32066, 31456>>,  \* 終章
     <<32456, 31456>>,  \* 终章
     <<23614, 32882>>,  \* 尾聲
     <<23614, 22768>>,  \* 尾声
     <<24460, 35352>>,  \* 後記
     <<21518, 35760>>,  \* 后记
     <<21697, 29260, 26041>>,  \* 品牌方
     <<20986, 21697, 26041>>,  \* 出品方
     <<25480, 27402, 26041>>,  \* 授權方
     <<25480, 26435, 26041>>,  \* 授权方
     <<38651, 23376, 29256, 27402>>,  \* 電子版權
     <<25968, 23383, 29256, 26435>>,  \* 数字版权
     <<25475, 25551>>,  \* 掃描
     <<25195, 25551>>,  \* 扫描
     <<79, 67, 82>>,  \* OCR
     <<67, 73, 80>>,  \* CIP
     <<22312, 29256, 32232, 30446>>,  \* 在版編目
     <<22312, 29256, 32534, 30446>>,  \* 在版编目
     <<20998, 39006, 34399>>,  \* 分類號
     <<20998, 31867, 21495>>,  \* 分类号
     <<20027, 38988, 35422>>,  \* 主題詞
     <<20027, 39064, 35789>>,  \* 主题词
     <<30332, 34892, 26085>>,  \* 發行日
     <<21457, 34892, 26085>>,  \* 发行日
     <<21021, 29256>>,  \* 初版
     <<73, 83, 66, 78>>}  \* ISBN

\* “ ‘ 「 『 ﹁ ﹃
DIALOG_OPENERS == {8220, 8216, 12300, 12302, 65089, 65091}

\* ” ’ 」 』 ﹂ ﹄ 〞 〟
DIALOG_CLOSERS == {8221, 8217, 12301, 12303, 65090, 65092, 12318, 12319}

\* （ ( [ 【 《 < {
OPEN_BRACKETS == {65288, 40, 91, 12304, 12298, 60, 123}

\* ） ) ] 】 》 > }
CLOSE_BRACKETS == {65289, 41, 93, 12305, 12299, 62, 125}

\* <<open, close>> for （） () ［］ [] ｛｝ {} ＜＞ <> ⟨⟩ 〈〉 【】 《》 〔〕 〖〗
BRACKET_PAIRS == {<<65288, 65289>>, <<40, 41>>, <<65339, 65341>>, <<91, 93>>, <<65371, 65373>>, <<123, 125>>, <<65308, 65310>>, <<60, 62>>, <<10216, 10217>>, <<12296, 12297>>, <<12304, 12305>>, <<12298, 12299>>, <<12308, 12309>>, <<12310, 12311>>}

is_dialog_opener(ch) == ch \in DIALOG_OPENERS
is_dialog_closer(ch) == ch \in DIALOG_CLOSERS
is_bracket_opener(ch) == \E p \in BRACKET_PAIRS : p[1] = ch
is_bracket_closer(ch) == \E p \in BRACKET_PAIRS : p[2] = ch
is_matching_bracket(open, close) == <<open, close>> \in BRACKET_PAIRS

\* 。 ！ ？ ! ?
is_strong_sentence_end(ch) == ch \in {12290, 65281, 65311, 33, 63}  \* 。 ！ ？ ! ?

\* ------------------------------------------------------------------------
\* Character classification
\* ------------------------------------------------------------------------

is_cjk_bmp(ch) ==
    \/ ch \in 13312..19903      \* U+3400..U+4DBF
    \/ ch \in 19968..40959      \* U+4E00..U+9FFF
    \/ ch \in 63744..64255      \* U+F900..U+FAFF

is_all_ascii(s) == \A i \in 1..Len(s) : s[i] <= 127

\* lib.rs is_all_cjk and reflow_helper.rs is_all_cjk_no_ws: non-empty, every
\* char a CJK ideograph, no whitespace.
is_all_cjk(s) ==
    /\ s # <<>>
    /\ \A i \in 1..Len(s) : ~is_whitespace(s[i]) /\ is_cjk_bmp(s[i])

\* Some non-whitespace char, and none of them ASCII.
is_all_cjk_ignoring_ws(s) ==
    /\ NonWs(s) # {}
    /\ \A i \in NonWs(s) : s[i] > 127

is_digit_ascii_or_fullwidth(ch) == ch \in 48..57 \/ ch \in 65296..65305

is_mostly_cjk(s) ==
    LET counted == {i \in 1..Len(s) :
                      ~is_whitespace(s[i]) /\ ~is_digit_ascii_or_fullwidth(s[i])}
        cjk == Cardinality({i \in counted : is_cjk_bmp(s[i])})
        ascii == Cardinality({i \in counted :
                                ~is_cjk_bmp(s[i]) /\ s[i] <= 127
                                /\ is_ascii_alphabetic(s[i])})
    IN cjk > 0 /\ cjk >= ascii

\* The scan returns false at the first disallowed char and true as soon as a
\* CJK ideograph and an ASCII alphanumeric (or full-width digit) were seen.
is_mixed_cjk_ascii(s) ==
    LET neutral(ch) == ch \in {32, 45, 47, 58, 46}  \*   - / : .
        asciiish(ch) == (ch <= 127 /\ is_ascii_alphanumeric(ch)) \/ ch \in 65296..65305
        bad == {i \in 1..Len(s) :
                  /\ ~neutral(s[i])
                  /\ ~asciiish(s[i])
                  /\ (s[i] <= 127 \/ ~is_cjk_bmp(s[i]))}
        cjkAt == {i \in 1..Len(s) : ~neutral(s[i]) /\ s[i] > 127 /\ is_cjk_bmp(s[i])}
        asciiAt == {i \in 1..Len(s) : ~neutral(s[i]) /\ asciiish(s[i])}
    IN /\ cjkAt # {}
       /\ asciiAt # {}
       /\ LET both == IF MinOf(cjkAt) > MinOf(asciiAt) THEN MinOf(cjkAt) ELSE MinOf(asciiAt)
          IN \A b \in bad : both < b

\* ------------------------------------------------------------------------
\* Line normalizer
\* ------------------------------------------------------------------------

\* Strips the leading run of half-width spaces only.
strip_halfwidth_indent_keep_fullwidth(s) ==
    LET keep == {i \in 1..Len(s) : s[i] # 32}
    IN IF keep = {} THEN <<>> ELSE SubSeq(s, MinOf(keep), Len(s))

strip_last_char(s) == IF s = <<>> THEN s ELSE SubSeq(s, 1, Len(s) - 1)

MIN_REPEATS == 3
MAX_PHRASE_LEN == 8

\* The number of consecutive copies of the phrase parts[start .. start+len-1]
\* (start is 0-based, as in the code).
phrase_repeat_count(parts, start, len) ==
    LET n == Len(parts)
        same(m) == /\ start + m * len + len <= n
                   /\ \A k \in 0..(len - 1) :
                        parts[start + k + 1] = parts[start + m * len + k + 1]
    IN MaxOf({c \in 1..n : \A m \in 1..(c - 1) : same(m)})

\* Collapses the first run found, scanning start upwards and, for each start,
\* the phrase length upwards.
collapse_repeated_word_sequences(parts) ==
    LET n == Len(parts)
        hits == {p \in (0..(n - 1)) \X (1..MAX_PHRASE_LEN) :
                   /\ p[1] + p[2] <= n
                   /\ phrase_repeat_count(parts, p[1], p[2]) >= MIN_REPEATS}
    IN IF n < MIN_REPEATS \/ hits = {} THEN parts
       ELSE LET start == MinOf({p[1] : p \in hits})
                len == MinOf({p[2] : p \in {q \in hits : q[1] = start}})
                count == phrase_repeat_count(parts, start, len)
            IN SubSeq(parts, 1, start)
                 \o SubSeq(parts, start + 1, start + len)
                 \o SubSeq(parts, start + count * len + 1, n)

\* A token that is 3 or more copies of a unit of 4..10 chars becomes the unit.
collapse_repeated_token(token) ==
    LET length == Len(token)
        units == {u \in 4..10 :
                    /\ u <= length \div 3
                    /\ length % u = 0
                    /\ \A i \in 1..((length \div u) - 1) :
                         SubSeq(token, i * u + 1, i * u + u) = SubSeq(token, 1, u)}
    IN IF length < 4 \/ length > 200 \/ units = {} THEN token
       ELSE SubSeq(token, 1, MinOf(units))

collapse_repeated_segments(line) ==
    LET trimmed == trim(line)
        parts == split_whitespace(trimmed)
        phrase_collapsed == collapse_repeated_word_sequences(parts)
        token_collapsed == [i \in 1..Len(phrase_collapsed) |->
                              collapse_repeated_token(phrase_collapsed[i])]
    IN IF trimmed = <<>> \/ parts = <<>> THEN line
       ELSE join(token_collapsed, <<32>>)

\* ------------------------------------------------------------------------
\* Line classifier
\* ------------------------------------------------------------------------

\* Box drawing U+2500..U+257F, - = _ ~ ～, * ＊ ★ ☆
is_divider_glyph(ch) ==
    \/ ch \in 9472..9599
    \/ ch \in {45, 61, 95, 126, 65374}  \* - = _ ~ ～
    \/ ch \in {42, 65290, 9733, 9734}  \* * ＊ ★ ☆

\* Faulty variant of is_box_drawing_line: more than 3 glyphs are required.
is_box_drawing_line_over_three(s) ==
    /\ trim(s) # <<>>
    /\ \A i \in NonWs(s) : is_divider_glyph(s[i])
    /\ Cardinality(NonWs(s)) > 3

is_box_drawing_line(s) ==
    /\ trim(s) # <<>>
    /\ \A i \in NonWs(s) : is_divider_glyph(s[i])
    /\ Cardinality(NonWs(s)) >= 3

\* Faulty variant of is_page_marker: the space sits in the wrong literal.
is_page_marker_trailing_space(s) == starts_with(s, <<61, 61, 61>>) /\ ends_with(s, <<61, 61, 61, 32>>)  \* "===" "=== "

is_page_marker(s) == starts_with(s, <<61, 61, 61, 32>>) /\ ends_with(s, <<61, 61, 61>>)  \* "=== " "==="

is_metadata_line_with(separators, line) ==
    LET s == trim(line)
        seps == {i \in 1..Len(s) : s[i] \in separators}
    IN /\ s # <<>>
       /\ Len(s) <= 30
       /\ seps # {}
       /\ LET sep == MinOf(seps)
              char_pos == sep - 1
              key == trim(SubSeq(s, 1, sep - 1))
              after == {i \in (sep + 1)..Len(s) : ~is_whitespace(s[i])}
          IN /\ ~(char_pos = 0 \/ char_pos > 10)
             /\ key \in METADATA_KEYS
             /\ after # {}
             /\ s[MinOf(after)] \notin DIALOG_OPENERS

is_metadata_line_lib(line) == is_metadata_line_with(METADATA_SEPARATORS_lib, line)
is_metadata_line_helper(line) == is_metadata_line_with(METADATA_SEPARATORS_helper, line)

\* The 第 ... 章/节/部/卷/節/回 scan of is_title_heading_line. The pairs (i, j) are
\* visited with i upwards and, for each i, j upwards (0-based, as in the code).
\* The first pair whose marker is followed by 分/合 returns false, the first
\* one with at most 20 chars after the marker returns true.
chapter_marker_scan(chars) ==
    LET n == Len(chars)
        pairs == {p \in (0..(n - 1)) \X (0..(n - 1)) :
                    /\ chars[p[1] + 1] = 31532  \* 第
                    /\ p[1] <= 10
                    /\ p[2] > p[1]
                    /\ p[2] - p[1] <= 6
                    /\ chars[p[2] + 1] \in CHAPTER_MARKERS}
        invalid(p) == p[2] + 1 < n /\ chars[p[2] + 2] \in INVALID_AFTER_MARKER
        fits(p) == n - (p[2] + 1) <= 20
        decisive == {p \in pairs : invalid(p) \/ fits(p)}
        before(p, q) == p[1] < q[1] \/ (p[1] = q[1] /\ p[2] <= q[2])
    IN /\ decisive # {}
       /\ LET d == CHOOSE p \in decisive : \A q \in decisive : before(p, q)
          IN ~invalid(d)

is_title_heading_line_lib(line) ==
    LET s == trim(line)
    IN /\ s # <<>>
       /\ Len(s) <= 50
       /\ \/ \E kw \in HEADING_KEYWORDS : starts_with(s, kw)
          \/ IF starts_with(s, BONUS_PREFIX)
             THEN Len(s) - Len(BONUS_PREFIX) <= 15
             ELSE chapter_marker_scan(s)

is_title_heading_line_helper(line) ==
    LET s == trim(line)
    IN /\ s # <<>>
       /\ Len(s) <= 50
       /\ ~any_in(s, HEADING_REJECT_PUNCT)
       /\ \/ \E kw \in HEADING_KEYWORDS : starts_with(s, kw)
          \/ IF starts_with(s, BONUS_PREFIX)
             THEN Len(s) - Len(BONUS_PREFIX) <= 15
             ELSE \/ /\ Len(s) >= 2
                     /\ s[1] \in {21367, 31456}  \* 卷 章
                     /\ s[2] \in CJK_NUMERALS
                     /\ Len(s) <= 17
                  \/ chapter_marker_scan(s)

is_chapter_ending_line_with(trail, line) ==
    LET s == trim(line)
        body == {i \in 1..Len(s) : s[i] \notin trail}
    IN /\ s # <<>>
       /\ Len(s) <= 15
       /\ body # {}
       /\ s[MaxOf(body)] \in CHAPTER_MARKERS

is_chapter_ending_line_lib(line) ==
    is_chapter_ending_line_with(CHAPTER_TRAIL_BRACKETS_lib, line)
is_chapter_ending_line_helper(line) ==
    is_chapter_ending_line_with(CHAPTER_TRAIL_BRACKETS_helper, line)

is_dialog_start(s) == first_char(trim_indent(s)) \in DIALOG_OPENERS

\* lib.rs: some opening bracket and no closing bracket at all.
has_unclosed_bracket_lib(s) == any_in(s, OPEN_BRACKETS) /\ ~any_in(s, CLOSE_BRACKETS)

\* reflow_helper.rs: the same test over the bracket-pair table.
has_unclosed_bracket_helper(s) ==
    /\ \E i \in 1..Len(s) : is_bracket_opener(s[i])
    /\ ~\E i \in 1..Len(s) : is_bracket_closer(s[i])

\* The last part of is_heading_like, the same in both copies: a line of at
\* most max_len chars without sentence punctuation that is all ASCII digits,
\* or has a non-ASCII char, or is ASCII with a letter.
short_line_is_heading(s, max_len, punct) ==
    /\ Len(s) <= max_len
    /\ ~any_in(s, punct)
    /\ LET has_non_ascii == \E i \in 1..Len(s) : s[i] > 127
           all_ascii == ~has_non_ascii
           has_letter == \E i \in 1..Len(s) : s[i] <= 127 /\ is_ascii_alphabetic(s[i])
           all_ascii_digits == \A i \in 1..Len(s) : s[i] <= 127 /\ is_ascii_digit(s[i])
       IN all_ascii_digits \/ has_non_ascii \/ (all_ascii /\ has_letter)

is_heading_like_lib(line) ==
    LET s == trim(line)
        len == Len(s)
        max_len == IF is_all_ascii(s) THEN 16 ELSE 8
        last == last_char(s)
    IN /\ s # <<>>
       /\ ~(starts_with(s, <<61, 61, 61, 32>>) /\ ends_with(s, <<61, 61, 61>>))  \* "=== " "==="
       /\ ~(any_in(s, OPEN_BRACKETS) /\ ~any_in(s, CLOSE_BRACKETS))
       /\ \/ /\ last \in {65306, 58}  \* ： :
             /\ len < max_len
             /\ is_all_cjk(strip_last_char(s))
          \/ /\ last \notin CJK_PUNCT_END_lib
             /\ ~any_in(s, {65292, 44, 12289})  \* ， , 、
             /\ short_line_is_heading(s, max_len, CJK_PUNCT_END_lib)

is_heading_like_helper(line) ==
    LET s == trim(line)
        len == Len(s)
        max_len == IF is_all_ascii(s) \/ is_mixed_cjk_ascii(s) THEN 16 ELSE 8
        last == last_char(s)
        inner == SubSeq(s, 2, Len(s) - 1)
    IN /\ s # <<>>
       /\ ~(starts_with(s, <<61, 61, 61, 32>>) /\ ends_with(s, <<61, 61, 61>>))  \* "=== " "==="
       /\ ~has_unclosed_bracket_helper(s)
       /\ \/ /\ is_matching_bracket(first_char(s), last)
             /\ trim(inner) # <<>>
             /\ is_mostly_cjk(inner)
          \/ /\ last \in {65306, 58}  \* ： :
             /\ len < max_len
             /\ is_all_cjk(strip_last_char(s))
          \/ /\ last \notin CJK_PUNCT_END_helper
             /\ ~any_in(s, {65292, 44, 12289})  \* ， , 、
             /\ short_line_is_heading(s, max_len, CJK_PUNCT_END_helper)

\* ------------------------------------------------------------------------
\* Boundary detector
\* ------------------------------------------------------------------------

buffer_ends_with_cjk_punct_lib(s) == last_non_ws(s) \in CJK_PUNCT_END_lib
buffer_ends_with_cjk_punct_helper(s) == last_non_ws(s) \in CJK_PUNCT_END_helper

\* 1-based position of the last non-whitespace char; 0 stands for None.
find_last_non_whitespace_char_index(s) == IF NonWs(s) = {} THEN 0 ELSE MaxOf(NonWs(s))

\* The code walks s backwards from its END while counting down from
\* end_exclusive, and stops at the first non-whitespace char or when the count
\* is used up: with w whitespace chars at the end of s it answers the position
\* w + 1 before end_exclusive, whatever char is there, and None when s is all
\* whitespace or the count runs out first. 1-based; 0 stands for None.
find_prev_non_whitespace_char_index(s, end_exclusive) ==
    LET w == Len(s) - MaxOf(NonWs(s))
    IN IF NonWs(s) # {} /\ end_exclusive - 1 - w >= 1
       THEN end_exclusive - 1 - w
       ELSE 0

is_at_line_end_ignoring_whitespace(s, index) ==
    \A i \in (index + 1)..Len(s) : is_whitespace(s[i])

is_at_end_allowing_closers(s, index) ==
    \A i \in (index + 1)..Len(s) :
        is_whitespace(s[i]) \/ is_dialog_closer(s[i]) \/ is_bracket_closer(s[i])

\* punct_index is the 1-based position of the '.' or ':'.
is_ocr_cjk_ascii_punct_at_line_end(s, punct_index) ==
    /\ punct_index > 1
    /\ is_at_line_end_ignoring_whitespace(s, punct_index)
    /\ is_cjk_bmp(s[punct_index - 1])
    /\ is_mostly_cjk(s)

is_ocr_cjk_ascii_punct_before_closers(s, punct_index) ==
    /\ punct_index > 1
    /\ is_at_end_allowing_closers(s, punct_index)
    /\ is_cjk_bmp(s[punct_index - 1])
    /\ is_mostly_cjk(s)

ends_with_ellipsis(s) ==
    LET t == trim_end(s)
    IN \/ ends_with(t, <<8230>>)  \* "…"
       \/ ends_with(t, <<8230, 8230>>)  \* "……"
       \/ ends_with(t, <<46, 46, 46>>)  \* "..."
       \/ ends_with(t, <<46, 46>>)  \* ".."

ends_with_sentence_boundary(s) ==
    LET last_non_ws_idx == find_last_non_whitespace_char_index(s)
        last == s[last_non_ws_idx]
        prev_non_ws == find_prev_non_whitespace_char_index(s, last_non_ws_idx)
        prev == s[prev_non_ws]
    IN /\ trim(s) # <<>>
       /\ \/ is_strong_sentence_end(last)
          \/ /\ last \in {46, 58}  \* . :
             /\ is_ocr_cjk_ascii_punct_at_line_end(s, last_non_ws_idx)
          \/ /\ is_dialog_closer(last)
             /\ prev_non_ws # 0
             /\ \/ is_strong_sentence_end(prev)
                \/ prev = 46 /\ is_ocr_cjk_ascii_punct_before_closers(s, prev_non_ws)  \* .
          \/ /\ is_bracket_closer(last)
             /\ last_non_ws_idx > 1
             /\ is_mostly_cjk(s)
          \/ ends_with_ellipsis(s)

\* punct_sets.rs: the detector the newer helpers share. Its positions come
\* from char_indices(), so they are BYTE offsets (0-based) of the UTF-8 text,
\* while the OCR helpers they are handed to count chars.
len_utf8(ch) == IF ch < 128 THEN 1 ELSE IF ch < 2048 THEN 2 ELSE IF ch < 65536 THEN 3 ELSE 4

\* The byte offset of the char at the 1-based position k.
byte_index(s, k) ==
    Cardinality({j \in 1..(k - 1) : len_utf8(s[j]) >= 1})
      + Cardinality({j \in 1..(k - 1) : len_utf8(s[j]) >= 2})
      + Cardinality({j \in 1..(k - 1) : len_utf8(s[j]) >= 3})
      + Cardinality({j \in 1..(k - 1) : len_utf8(s[j]) >= 4})

\* ((last_i, last), (prev_i, prev)) of the last two non-whitespace chars, or
\* None (some = FALSE) when there are fewer than two.
last_two_non_whitespace_idx(s) ==
    LET ks == NonWs(s)
    IN IF Cardinality(ks) < 2
       THEN [some |-> FALSE, last_i |-> 0, last |-> 0, prev_i |-> 0, prev |-> 0]
       ELSE LET kl == MaxOf(ks)
                kp == MaxOf(ks \ {kl})
            IN [some |-> TRUE, last_i |-> byte_index(s, kl), last |-> s[kl],
                prev_i |-> byte_index(s, kp), prev |-> s[kp]]

\* s.chars().nth(idx).unwrap_or('\0'), idx 0-based
nth_char(s, idx) == IF idx + 1 <= Len(s) THEN s[idx + 1] ELSE 0

\* ） )
is_allowed_postfix_closer(ch) == ch \in {65289, 41}  \* ） )

\* ： :
is_colon_like(ch) == ch \in {65306, 58}  \* ： :

\* punct_index is 0-based and is read as a char position.
is_ocr_cjk_ascii_punct_at_line_end_punct_sets(s, punct_index) ==
    /\ punct_index # 0
    /\ is_at_line_end_ignoring_whitespace(s, punct_index + 1)
    /\ is_cjk_bmp(nth_char(s, punct_index - 1))
    /\ is_mostly_cjk(s)

is_ocr_cjk_ascii_punct_before_closers_punct_sets(s, punct_index) ==
    /\ punct_index # 0
    /\ is_at_end_allowing_closers(s, punct_index + 1)
    /\ is_cjk_bmp(nth_char(s, punct_index - 1))
    /\ is_mostly_cjk(s)

ends_with_sentence_boundary_punct_sets(s) ==
    LET two == last_two_non_whitespace_idx(s)
    IN /\ trim(s) # <<>>
       /\ IF ~two.some THEN is_strong_sentence_end(last_non_ws(s))
          ELSE \/ is_strong_sentence_end(two.last)
               \/ /\ two.last \in {46, 58}  \* . :
                  /\ is_ocr_cjk_ascii_punct_at_line_end_punct_sets(s, two.last_i)
               \/ /\ is_dialog_closer(two.last) \/ is_allowed_postfix_closer(two.last)
                  /\ \/ is_strong_sentence_end(two.prev)
                     \/ /\ two.prev = 46  \* .
                        /\ is_ocr_cjk_ascii_punct_before_closers_punct_sets(s, two.prev_i)
               \/ is_colon_like(two.last) /\ is_mostly_cjk(s)
               \/ ends_with_ellipsis(s)

\* depth goes up on open and, only on a char that is not open, down on close.
is_bracket_type_balanced(s, open, close) ==
    LET opens(k) == Cardinality({i \in 1..k : s[i] = open})
        closes(k) == Cardinality({i \in 1..k : s[i] # open /\ s[i] = close})
    IN /\ \A k \in 1..Len(s) : opens(k) >= closes(k)
       /\ opens(Len(s)) = closes(Len(s))

ends_with_cjk_bracket_boundary(s) ==
    LET t == trim(s)
    IN /\ t # <<>>
       /\ is_matching_bracket(first_char(t), last_char(t))
       /\ is_mostly_cjk(t)
       /\ is_bracket_type_balanced(t, first_char(t), last_char(t))

\* ------------------------------------------------------------------------
\* Dialogue state tracker
\* ------------------------------------------------------------------------

DialogState_new ==
    [double_quote |-> 0, single_quote |-> 0, corner |-> 0,
     corner_bold |-> 0, corner_top |-> 0, corner_wide |-> 0]

DialogState_reset(ds) == DialogState_new

\* Faulty variant of DialogState_update_char: a closer always counts down.
DialogState_update_char_unclamped(ds, ch) ==
    CASE ch = 8220 -> [ds EXCEPT !.double_quote = @ + 1]  \* “
      [] ch = 8221 -> [ds EXCEPT !.double_quote = @ - 1]  \* ”
      [] ch = 8216 -> [ds EXCEPT !.single_quote = @ + 1]  \* ‘
      [] ch = 8217 -> [ds EXCEPT !.single_quote = @ - 1]  \* ’
      [] ch = 12300 -> [ds EXCEPT !.corner = @ + 1]  \* 「
      [] ch = 12301 -> [ds EXCEPT !.corner = @ - 1]  \* 」
      [] ch = 12302 -> [ds EXCEPT !.corner_bold = @ + 1]  \* 『
      [] ch = 12303 -> [ds EXCEPT !.corner_bold = @ - 1]  \* 』
      [] ch = 65089 -> [ds EXCEPT !.corner_top = @ + 1]  \* ﹁
      [] ch = 65090 -> [ds EXCEPT !.corner_top = @ - 1]  \* ﹂
      [] ch = 65091 -> [ds EXCEPT !.corner_wide = @ + 1]  \* ﹃
      [] ch = 65092 -> [ds EXCEPT !.corner_wide = @ - 1]  \* ﹄
      [] OTHER -> ds

\* One char of DialogState::update: an opener counts up, a closer counts
\* down unless the counter is 0.
DialogState_update_char(ds, ch) ==
    LET dec(x) == IF x > 0 THEN x - 1 ELSE x
    IN CASE ch = 8220 -> [ds EXCEPT !.double_quote = @ + 1]  \* “
         [] ch = 8221 -> [ds EXCEPT !.double_quote = dec(@)]  \* ”
         [] ch = 8216 -> [ds EXCEPT !.single_quote = @ + 1]  \* ‘
         [] ch = 8217 -> [ds EXCEPT !.single_quote = dec(@)]  \* ’
         [] ch = 12300 -> [ds EXCEPT !.corner = @ + 1]  \* 「
         [] ch = 12301 -> [ds EXCEPT !.corner = dec(@)]  \* 」
         [] ch = 12302 -> [ds EXCEPT !.corner_bold = @ + 1]  \* 『
         [] ch = 12303 -> [ds EXCEPT !.corner_bold = dec(@)]  \* 』
         [] ch = 65089 -> [ds EXCEPT !.corner_top = @ + 1]  \* ﹁
         [] ch = 65090 -> [ds EXCEPT !.corner_top = dec(@)]  \* ﹂
         [] ch = 65091 -> [ds EXCEPT !.corner_wide = @ + 1]  \* ﹃
         [] ch = 65092 -> [ds EXCEPT !.corner_wide = dec(@)]  \* ﹄
         [] OTHER -> ds

RECURSIVE DialogState_update_from(_, _, _)
DialogState_update_from(ds, s, i) ==
    IF i > Len(s) THEN ds
    ELSE DialogState_update_from(DialogState_update_char(ds, s[i]), s, i + 1)

DialogState_update(ds, s) == DialogState_update_from(ds, s, 1)

\* reflow_helper.rs writes the closer as x = (x - 1).max(0).
DialogState_update_char_helper(ds, ch) ==
    LET dec(x) == IF x - 1 > 0 THEN x - 1 ELSE 0
    IN CASE ch = 8220 -> [ds EXCEPT !.double_quote = @ + 1]  \* “
         [] ch = 8221 -> [ds EXCEPT !.double_quote = dec(@)]  \* ”
         [] ch = 8216 -> [ds EXCEPT !.single_quote = @ + 1]  \* ‘
         [] ch = 8217 -> [ds EXCEPT !.single_quote = dec(@)]  \* ’
         [] ch = 12300 -> [ds EXCEPT !.corner = @ + 1]  \* 「
         [] ch = 12301 -> [ds EXCEPT !.corner = dec(@)]  \* 」
         [] ch = 12302 -> [ds EXCEPT !.corner_bold = @ + 1]  \* 『
         [] ch = 12303 -> [ds EXCEPT !.corner_bold = dec(@)]  \* 』
         [] ch = 65089 -> [ds EXCEPT !.corner_top = @ + 1]  \* ﹁
         [] ch = 65090 -> [ds EXCEPT !.corner_top = dec(@)]  \* ﹂
         [] ch = 65091 -> [ds EXCEPT !.corner_wide = @ + 1]  \* ﹃
         [] ch = 65092 -> [ds EXCEPT !.corner_wide = dec(@)]  \* ﹄
         [] OTHER -> ds

RECURSIVE DialogState_update_helper_from(_, _, _)
DialogState_update_helper_from(ds, s, i) ==
    IF i > Len(s) THEN ds
    ELSE DialogState_update_helper_from(DialogState_update_char_helper(ds, s[i]), s, i + 1)

DialogState_update_helper(ds, s) == DialogState_update_helper_from(ds, s, 1)

DialogState_is_unclosed(ds) ==
    \/ ds.double_quote > 0
    \/ ds.single_quote > 0
    \/ ds.corner > 0
    \/ ds.corner_bold > 0
    \/ ds.corner_top > 0
    \/ ds.corner_wide > 0

\* ------------------------------------------------------------------------
\* Reflow driver: one iteration of the loop over the lines
\* ------------------------------------------------------------------------
\* A driver state st is [segments, buffer, dialog_state]; an iteration
\* answers the next driver state together with the rule that handled the line.

\* Faulty variant of flush_buffer_and_push_line: the buffer is not flushed.
push_line_keep_buffer(st, line, rule) ==
    [segments |-> Append(st.segments, line), buffer |-> st.buffer,
     dialog_state |-> st.dialog_state, rule |-> rule]

\* if !buffer.is_empty() { segments.push(take(buffer)); dialog_state.reset() }
\* segments.push(line)
flush_buffer_and_push_line(st, line, rule) ==
    [segments |-> (IF st.buffer # <<>> THEN Append(st.segments, st.buffer)
                   ELSE st.segments) \o <<line>>,
     buffer |-> <<>>,
     dialog_state |-> IF st.buffer # <<>> THEN DialogState_new ELSE st.dialog_state,
     rule |-> rule]

\* segments.push(line) alone: the buffer stays as it is.
push_line_only(st, line, rule) ==
    [segments |-> Append(st.segments, line), buffer |-> st.buffer,
     dialog_state |-> st.dialog_state, rule |-> rule]

\* Faulty variant of flush_buffer: the buffer is pushed even when it is empty.
flush_buffer_unchecked(st, rule) ==
    [segments |-> Append(st.segments, st.buffer), buffer |-> <<>>,
     dialog_state |-> DialogState_new, rule |-> rule]

\* if !buffer.is_empty() { segments.push(take(buffer)); dialog_state.reset() }
flush_buffer(st, rule) ==
    [segments |-> IF st.buffer # <<>> THEN Append(st.segments, st.buffer)
                  ELSE st.segments,
     buffer |-> <<>>,
     dialog_state |-> IF st.buffer # <<>> THEN DialogState_new ELSE st.dialog_state,
     rule |-> rule]

\* continue without touching anything
skip_line(st, rule) ==
    [segments |-> st.segments, buffer |-> st.buffer,
     dialog_state |-> st.dialog_state, rule |-> rule]

\* buffer.push_str(line); reset(); update(line)  (first line of a paragraph)
begin_paragraph(st, line, rule) ==
    [segments |-> st.segments, buffer |-> st.buffer \o line,
     dialog_state |-> DialogState_update(DialogState_new, line), rule |-> rule]

\* Faulty variant of flush_and_begin_paragraph: the buffer is written over the
\* last segment instead of being pushed after it.
flush_over_last_segment(st, line, rule) ==
    [segments |-> IF st.segments = <<>> THEN <<st.buffer>>
                  ELSE [st.segments EXCEPT ![Len(st.segments)] = st.buffer],
     buffer |-> line,
     dialog_state |-> DialogState_update(DialogState_new, line), rule |-> rule]

\* segments.push(buffer); buffer = line; reset(); update(line)
flush_and_begin_paragraph(st, line, rule) ==
    [segments |-> Append(st.segments, st.buffer), buffer |-> line,
     dialog_state |-> DialogState_update(DialogState_new, line), rule |-> rule]

\* Faulty variant of append_line: the line is put in front of the buffer.
append_line_in_front(st, line, rule) ==
    [segments |-> st.segments, buffer |-> line \o st.buffer,
     dialog_state |-> DialogState_update(st.dialog_state, line), rule |-> rule]

\* buffer.push_str(line); update(line)
append_line(st, line, rule) ==
    [segments |-> st.segments, buffer |-> st.buffer \o line,
     dialog_state |-> DialogState_update(st.dialog_state, line), rule |-> rule]

\* reflow_helper.rs 178-181: buffer.push_str(line); segments.push(take(buffer));
\* reset(); update(line)  -- the counters are left as the line's, not at zero.
append_line_and_flush(st, line, rule) ==
    [segments |-> Append(st.segments, st.buffer \o line), buffer |-> <<>>,
     dialog_state |-> DialogState_update(DialogState_new, line), rule |-> rule]

\* The normalized text of a raw line: right-trimmed, half-width indent
\* stripped (stripped_visual), then repeated content collapsed (line_text).
stripped_visual_of(raw_line) == strip_halfwidth_indent_keep_fullwidth(trim_end(raw_line))
line_text_of(raw_line) == collapse_repeated_segments(stripped_visual_of(raw_line))

\* Steps 7 to 10 of lib.rs (456-535): dialogue detection and merge rules.
merge_line_lib(st, line_text) ==
    LET buffer == st.buffer
        last == last_char(trim_end(buffer))
    IN IF buffer = <<>> THEN begin_paragraph(st, line_text, "first_line")
       ELSE IF is_dialog_start(line_text) /\ (last = None \/ last \notin {65292, 44})  \* ， ,
            THEN flush_and_begin_paragraph(st, line_text, "dialog_start")
       ELSE IF /\ last_non_ws(buffer) \in {65306, 58}  \* ： :
               /\ first_char(trim_indent(line_text)) \in DIALOG_OPENERS
            THEN append_line(st, line_text, "colon_dialog")
       ELSE IF /\ buffer_ends_with_cjk_punct_lib(buffer)
               /\ ~DialogState_is_unclosed(st.dialog_state)
            THEN flush_and_begin_paragraph(st, line_text, "punct_boundary")
       ELSE IF is_chapter_ending_line_lib(buffer)
            THEN flush_and_begin_paragraph(st, line_text, "chapter_ending")
       ELSE append_line(st, line_text, "soft_join")

\* One iteration of the loop of lib.rs (330-536).
reflow_line_lib(st, raw_line, add_pdf_page_header) ==
    LET stripped_visual == stripped_visual_of(raw_line)
        probe == trim_indent(stripped_visual)
        line_text == collapse_repeated_segments(stripped_visual)
        heading_probe == trim_indent(line_text)
        buffer == st.buffer
        last == last_char(trim_end(buffer))
        heading_like == is_heading_like_lib(line_text)
        unclosed == has_unclosed_bracket_lib(buffer)
    IN IF is_box_drawing_line(probe)
       THEN flush_buffer_and_push_line(st, stripped_visual, "divider")
       ELSE IF trim(heading_probe) = <<>>
       THEN IF /\ ~add_pdf_page_header
               /\ buffer # <<>>
               /\ last_non_ws(buffer) # None
               /\ last_non_ws(buffer) \notin CJK_PUNCT_END_lib
            THEN skip_line(st, "blank_skip")
            ELSE flush_buffer(st, "blank_flush")
       ELSE IF is_page_marker(heading_probe)
       THEN flush_buffer_and_push_line(st, line_text, "page_marker")
       ELSE IF is_metadata_line_lib(line_text)
       THEN flush_buffer_and_push_line(st, line_text, "metadata")
       ELSE IF is_title_heading_line_lib(heading_probe)
       THEN flush_buffer_and_push_line(st, line_text, "title_heading")
       ELSE IF heading_like /\ buffer = <<>>
       THEN push_line_only(st, line_text, "short_heading")
       ELSE IF /\ heading_like
               /\ ~unclosed
               /\ last = None
       THEN push_line_only(st, line_text, "short_heading")
       ELSE IF /\ heading_like
               /\ ~unclosed
               /\ last \notin {65292, 44, 12289}  \* ， , 、
               /\ ~(is_all_cjk_ignoring_ws(heading_probe) /\ last \notin CJK_PUNCT_END_lib)
       THEN flush_buffer_and_push_line(st, line_text, "short_heading_split")
       ELSE merge_line_lib(st, line_text)

\* Steps 7 to 10 of reflow_helper.rs (187-271).
merge_line_helper(st, line_text) ==
    LET buffer == st.buffer
        last == last_char(trim_end(buffer))
        closed == ~DialogState_is_unclosed(st.dialog_state)
    IN IF buffer = <<>> THEN begin_paragraph(st, line_text, "first_line")
       ELSE IF is_dialog_start(line_text) /\ (last = None \/ last \notin {65292, 44, 12289})  \* ， , 、
            THEN flush_and_begin_paragraph(st, line_text, "dialog_start")
       ELSE IF /\ last_non_ws(buffer) \in {65306, 58}  \* ： :
               /\ first_char(trim_indent(line_text)) \in DIALOG_OPENERS
            THEN append_line(st, line_text, "colon_dialog")
       ELSE IF closed /\ ends_with_sentence_boundary(buffer)
            THEN flush_and_begin_paragraph(st, line_text, "sentence_boundary")
       ELSE IF closed /\ ends_with_cjk_bracket_boundary(buffer)
            THEN flush_and_begin_paragraph(st, line_text, "bracket_boundary")
       ELSE IF closed /\ buffer_ends_with_cjk_punct_helper(buffer)
            THEN flush_and_begin_paragraph(st, line_text, "punct_boundary")
       ELSE IF is_chapter_ending_line_helper(buffer)
            THEN flush_and_begin_paragraph(st, line_text, "chapter_ending")
       ELSE append_line(st, line_text, "soft_join")

\* One iteration of the loop of reflow_helper.rs (55-272).
reflow_line_helper(st, raw_line, add_pdf_page_header) ==
    LET stripped_visual == stripped_visual_of(raw_line)
        probe == trim_indent(stripped_visual)
        line_text == collapse_repeated_segments(stripped_visual)
        heading_probe == trim_indent(line_text)
        buffer == st.buffer
        last == last_char(trim_end(buffer))
        heading_like == is_heading_like_helper(line_text)
        unclosed == has_unclosed_bracket_helper(buffer)
    IN IF is_box_drawing_line(probe)
       THEN flush_buffer_and_push_line(st, stripped_visual, "divider")
       ELSE IF trim(heading_probe) = <<>>
       THEN IF /\ ~add_pdf_page_header
               /\ buffer # <<>>
               /\ ~is_strong_sentence_end(last_non_ws(buffer))
            THEN skip_line(st, "blank_skip")
            ELSE flush_buffer(st, "blank_flush")
       ELSE IF is_page_marker(heading_probe)
       THEN flush_buffer_and_push_line(st, line_text, "page_marker")
       ELSE IF is_metadata_line_helper(line_text)
       THEN flush_buffer_and_push_line(st, line_text, "metadata")
       ELSE IF is_title_heading_line_helper(heading_probe)
       THEN flush_buffer_and_push_line(st, line_text, "title_heading")
       ELSE IF heading_like /\ buffer = <<>>
       THEN push_line_only(st, line_text, "short_heading")
       ELSE IF /\ heading_like
               /\ ~unclosed
               /\ last = None
       THEN push_line_only(st, line_text, "short_heading")
       ELSE IF /\ heading_like
               /\ ~unclosed
               /\ last \notin {65292, 44, 12289}  \* ， , 、
               /\ ~(is_all_cjk_ignoring_ws(heading_probe) /\ last \notin CJK_PUNCT_END_helper)
       THEN flush_buffer_and_push_line(st, line_text, "short_heading_split")
       ELSE IF buffer # <<>> /\ is_strong_sentence_end(last_char(trim_end(line_text)))
       THEN append_line_and_flush(st, line_text, "strong_line")
       ELSE merge_line_helper(st, line_text)

reflow_line(e, st, raw_line, add_pdf_page_header) ==
    IF e = "lib" THEN reflow_line_lib(st, raw_line, add_pdf_page_header)
    ELSE reflow_line_helper(st, raw_line, add_pdf_page_header)

\* The driver state before the first line.
driver_start == [segments |-> <<>>, buffer |-> <<>>, dialog_state |-> DialogState_new]

\* if !buffer.is_empty() { segments.push(buffer) }
final_segments(st) ==
    IF st.buffer # <<>> THEN Append(st.segments, st.buffer) ELSE st.segments

\* Faulty variant of join_segments: the two separators are swapped.
join_segments_swapped(segs, compact_mode) ==
    join(segs, IF compact_mode THEN <<10, 10>> ELSE <<10>>)

\* segments.join("\n") or segments.join("\n\n")
join_segments(segs, compact_mode) ==
    join(segs, IF compact_mode THEN <<10>> ELSE <<10, 10>>)

\* The loop over lines[k..], as a fold of reflow_line.
RECURSIVE reflow_from(_, _, _, _, _)
reflow_from(e, st, lines_, k, add_pdf_page_header) ==
    IF k > Len(lines_) THEN st
    ELSE LET r == reflow_line(e, st, lines_[k], add_pdf_page_header)
         IN reflow_from(e, [segments |-> r.segments, buffer |-> r.buffer,
                            dialog_state |-> r.dialog_state],
                        lines_, k + 1, add_pdf_page_header)

\* The segment list of a call on a text that is not all whitespace.
reflow_segments(e, input, add_pdf_page_header) ==
    final_segments(reflow_from(e, driver_start, split_lines(normalize_eol(input)), 1,
                               add_pdf_page_header))

\* The whole function.
reflow_cjk_paragraphs(e, input, add_pdf_page_header, compact_mode) ==
    IF all_whitespace(input) THEN input
    ELSE join_segments(reflow_segments(e, input, add_pdf_page_header), compact_mode)

\* ------------------------------------------------------------------------
\* Inputs
\* ------------------------------------------------------------------------
\* The input texts are the texts of 1..MaxLines lines drawn from one of the
\* line groups below and joined by "\n", plus some all-whitespace texts.

\* 很久很久以前的一天  (ordinary text, 9 ideographs)
LineLongAgo == <<24456, 20037, 24456, 20037, 20197, 21069, 30340, 19968, 22825>>
\* ──────────  (ten box-drawing dashes)
LineDivider == <<9472, 9472, 9472, 9472, 9472, 9472, 9472, 9472, 9472, 9472>>
\* U+3000 ───  (a divider behind a full-width indent)
LineIndentedDivider == <<12288, 9472, 9472, 9472>>
\* --- --- ---  (a divider made of one token three times)
LineDashTokens == <<45, 45, 45, 32, 45, 45, 45, 32, 45, 45, 45>>
\* the empty line
LineEmpty == <<>>
\* 他說，  (text ending in a comma)
LineHeSaidComma == <<20182, 35498, 65292>>
\* === [3/20] ===
LinePageMarker == <<61, 61, 61, 32, 91, 51, 47, 50, 48, 93, 32, 61, 61, 61>>
\* 「你好  (a dialogue opener that stays open)
LineOpenQuote == <<12300, 20320, 22909>>
\* 書名：三體
LineBookTitle == <<26360, 21517, 65306, 19977, 39636>>
\* 書名 U+3000 三體  (the separator is the ideographic space)
LineBookTitleWide == <<26360, 21517, 12288, 19977, 39636>>
\* 第一章 楔子
LineChapterOne == <<31532, 19968, 31456, 32, 26964, 23376>>
\* 很久很久以前……
LineOnceUponATime == <<24456, 20037, 24456, 20037, 20197, 21069, 8230, 8230>>
\* 那天晚上他對我說：  (text ending in a colon, too long for a heading)
LineHeToldMe == <<37027, 22825, 26202, 19978, 20182, 23565, 25105, 35498, 65306>>
\* 他說：
LineHeSaid == <<20182, 35498, 65306>>
\* 「你好。」
LineHello == <<12300, 20320, 22909, 12290, 12301>>
\* 购物帐单 购物帐单 购物帐单 购物帐单
LineShoppingList == <<36141, 29289, 24080, 21333, 32, 36141, 29289, 24080, 21333, 32, 36141, 29289, 24080, 21333, 32, 36141, 29289, 24080, 21333>>
\* 购物帐单
TokenShoppingList == <<36141, 29289, 24080, 21333>>
\* 甲乙丙丁甲乙丙丁甲乙丙丁 three times (each token is itself three units)
LinePeriodicTokens == <<30002, 20057, 19993, 19969, 30002, 20057, 19993, 19969, 30002, 20057, 19993, 19969, 32, 30002, 20057, 19993, 19969, 30002, 20057, 19993, 19969, 30002, 20057, 19993, 19969, 32, 30002, 20057, 19993, 19969, 30002, 20057, 19993, 19969, 30002, 20057, 19993, 19969>>
\* 他說， 甲乙丙丁甲乙丙丁
LineTwoUnits == <<20182, 35498, 65292, 32, 30002, 20057, 19993, 19969, 30002, 20057, 19993, 19969>>
\* 甲乙丙丁
LineOneUnit == <<30002, 20057, 19993, 19969>>
\* U+3000 很久很久以前的一天  (a paragraph behind a full-width indent)
LineIndentedLongAgo == <<12288, 24456, 20037, 24456, 20037, 20197, 21069, 30340, 19968, 22825>>
\* two half-width spaces, U+3000, 他說，
LineMixedIndent == <<32, 32, 12288, 20182, 35498, 65292>>
\* 嗎？
LineQuestion == <<21966, 65311>>
\* a line of one half-width space
LineSpace == <<32>>
\* 「你好！  (a dialogue opener on a line that ends a sentence)
LineShout == <<12300, 20320, 22909, 65281>>
\* （很久很久以前。  (a sentence inside a parenthesis that is still open)
LineOpenParenSentence == <<65288, 24456, 20037, 24456, 20037, 20197, 21069, 12290>>
\* （他笑了  (a parenthesis that is still open)
LineOpenParen == <<65288, 20182, 31505, 20102>>
\* 他停了一下、  (text ending in the enumeration comma)
LinePause == <<20182, 20572, 20102, 19968, 19979, 12289>>
\* 嗎？」  (the close of a quotation, behind a terminator)
LineQuestionClose == <<21966, 65311, 12301>>
\* 「我們一起讀完了這一卷  (an open quotation ending in a chapter marker)
LineQuoteVolume == <<12300, 25105, 20497, 19968, 36215, 35712, 23436, 20102, 36889, 19968, 21367>>
\* （「我們讀完了這一卷）  (a balanced parenthesis around an open quotation)
LineParenQuoteVolume == <<65288, 12300, 25105, 20497, 35712, 23436, 20102, 36889, 19968, 21367, 65289>>

LineGroups ==
    { {LineLongAgo, LineDivider, LineIndentedDivider, LineDashTokens, LineEmpty},
      {LineHeSaidComma, LinePageMarker, LineOpenQuote, LineBookTitle, LineBookTitleWide},
      {LineChapterOne, LineOnceUponATime, LineHeToldMe, LineHeSaid, LineHello},
      {LineShoppingList, LinePeriodicTokens, LineTwoUnits, LineOneUnit, LineIndentedLongAgo},
      {LineLongAgo, LineOpenQuote, LineQuestion, LineSpace, LineMixedIndent},
      {LineLongAgo, LineShout, LineHello, LineHeSaidComma, LineEmpty},
      {LineOpenParenSentence, LineOpenParen, LineOneUnit, LineOpenQuote, LinePause},
      {LineHeSaidComma, LineOpenQuote, LineQuestionClose, LineLongAgo, LineQuoteVolume},
      {LineParenQuoteVolume, LineLongAgo, LineHeSaidComma, LineQuestion, LineEmpty},
      {LineHeSaidComma, LineOpenQuote, LineShout, LineDivider, LineChapterOne} }

\* "", " ", "\n", "\r\n", U+3000 TAB, " \n" U+3000 "\r"
WhitespaceTexts ==
    { <<>>, <<32>>, <<10>>, <<13, 10>>, <<12288, 9>>, <<32, 10, 12288, 13>> }  \* " " "\n" "\r\n" "[U+3000]\t" " \n[U+3000]\r"

LineSeqs(group) == UNION {[1..n -> group] : n \in 1..MaxLines}

InputTexts ==
    WhitespaceTexts
      \cup {join(ls, <<10>>) : ls \in UNION {LineSeqs(g) : g \in LineGroups}}

\* ------------------------------------------------------------------------
\* The call reflow_cjk_paragraphs(text, add_pdf_page_header, compact)
\* ------------------------------------------------------------------------

VARIABLES
    engine,               \* "lib" (src/lib.rs) or "helper" (src/reflow_helper.rs)
    text,                 \* the argument text
    add_pdf_page_header,  \* the argument add_pdf_page_header
    compact,              \* the argument compact
    pc,                   \* "entry", "loop" or "done"
    lines,                \* the lines of the normalized text
    i,                    \* how many of them the loop has processed
    segments,             \* Vec<String> segments
    buffer,               \* String buffer
    dialog_state,         \* DialogState
    rule,                 \* the rule that handled the line processed last
    result,               \* the returned string, once pc = "done"
    first_call,           \* arguments and result of the first completed call
    config,               \* OpenCC.config
    last_error,           \* OpenCC.last_error
    doc,                  \* the PDF document: what each page's extraction yields
    pdf_pc,               \* "load", "pages", "ok" or "err"
    idx,                  \* pages already reported by the page loop
    callback_log,         \* the calls made to the Python callback, in order
    stderr_log            \* the page numbers warned about on stderr

\* The state of one call of reflow_cjk_paragraphs.
reflow_vars == <<engine, text, add_pdf_page_header, compact, pc, lines, i,
                 segments, buffer, dialog_state, rule, result>>
\* The state of an OpenCC instance.
opencc_vars == <<config, last_error>>
\* The state of one call of extract_pdf_pages_with_callback.
pdf_vars == <<doc, pdf_pc, idx, callback_log, stderr_log>>

vars == <<reflow_vars, first_call, opencc_vars, pdf_vars>>

\* No call of reflow_cjk_paragraphs has completed yet.
NoCall == [made |-> FALSE]

\* The parts of the state a behaviour does not use stay as they are here.
reflow_idle ==
    /\ text = <<>> /\ add_pdf_page_header = FALSE /\ compact = FALSE
    /\ pc = "entry" /\ lines = <<>> /\ i = 0 /\ segments = <<>> /\ buffer = <<>>
    /\ dialog_state = DialogState_new /\ rule = "none" /\ result = <<>>
calls_idle == first_call = NoCall
opencc_idle == config = "s2t" /\ last_error = <<>>
pdf_idle ==
    /\ doc = <<>> /\ pdf_pc = "load" /\ idx = 0
    /\ callback_log = <<>> /\ stderr_log = <<>>

Init ==
    /\ engine \in {"lib", "helper"}
    /\ text \in InputTexts
    /\ add_pdf_page_header \in BOOLEAN
    /\ compact \in BOOLEAN
    /\ pc = "entry"
    /\ lines = <<>>
    /\ i = 0
    /\ segments = <<>>
    /\ buffer = <<>>
    /\ dialog_state = DialogState_new
    /\ rule = "none"
    /\ result = <<>>
    /\ calls_idle /\ opencc_idle /\ pdf_idle

\* Faulty variant of ReturnUnchanged: the whitespace-only text is trimmed.
ReturnTrimmed ==
    /\ pc = "entry"
    /\ all_whitespace(text)
    /\ result' = trim(text)
    /\ pc' = "done"
    /\ UNCHANGED <<engine, text, add_pdf_page_header, compact, lines, i,
                   segments, buffer, dialog_state, rule>>
    /\ UNCHANGED <<first_call, opencc_vars, pdf_vars>>

\* if text.chars().all(|c| c.is_whitespace()) { return Ok(text.to_owned()) }
ReturnUnchanged ==
    /\ pc = "entry"
    /\ all_whitespace(text)
    /\ result' = text
    /\ pc' = "done"
    /\ UNCHANGED <<engine, text, add_pdf_page_header, compact, lines, i,
                   segments, buffer, dialog_state, rule>>
    /\ UNCHANGED <<first_call, opencc_vars, pdf_vars>>

\* Line endings are unified and the text is split into lines.
SplitLines ==
    /\ pc = "entry"
    /\ ~all_whitespace(text)
    /\ lines' = split_lines(normalize_eol(text))
    /\ pc' = "loop"
    /\ UNCHANGED <<engine, text, add_pdf_page_header, compact, i,
                   segments, buffer, dialog_state, rule, result>>
    /\ UNCHANGED <<first_call, opencc_vars, pdf_vars>>

\* The driver state the loop holds, and the outcome of its next iteration.
driver_state == [segments |-> segments, buffer |-> buffer, dialog_state |-> dialog_state]
next_outcome == reflow_line(engine, driver_state, lines[i + 1], add_pdf_page_header)

\* Faulty variant of ProcessLine: the loop handles a line and stays on it.
ProcessLine_same_line ==
    /\ pc = "loop"
    /\ i < Len(lines)
    /\ LET outcome == next_outcome
       IN /\ segments' = outcome.segments
          /\ buffer' = outcome.buffer
          /\ dialog_state' = outcome.dialog_state
          /\ rule' = outcome.rule
    /\ i' = i
    /\ UNCHANGED <<engine, text, add_pdf_page_header, compact, pc, lines, result>>
    /\ UNCHANGED <<first_call, opencc_vars, pdf_vars>>

\* One iteration of the loop over the lines: the line lines[i + 1] is
\* classified and handled by exactly one rule of the driver.
ProcessLine ==
    /\ pc = "loop"
    /\ i < Len(lines)
    /\ LET outcome == next_outcome
       IN /\ segments' = outcome.segments
          /\ buffer' = outcome.buffer
          /\ dialog_state' = outcome.dialog_state
          /\ rule' = outcome.rule
    /\ i' = i + 1
    /\ UNCHANGED <<engine, text, add_pdf_page_header, compact, pc, lines, result>>
    /\ UNCHANGED <<first_call, opencc_vars, pdf_vars>>

\* After the loop: the last buffer is flushed and the segments are joined.
Finish ==
    /\ pc = "loop"
    /\ i = Len(lines)
    /\ segments' = final_segments(driver_state)
    /\ buffer' = <<>>
    /\ result' = join_segments(segments', compact)
    /\ pc' = "done"
    /\ UNCHANGED <<engine, text, add_pdf_page_header, compact, lines, i,
                   dialog_state, rule>>
    /\ UNCHANGED <<first_call, opencc_vars, pdf_vars>>

Next == ReturnUnchanged \/ SplitLines \/ ProcessLine \/ Finish

Spec == Init /\ [][Next]_vars

\* ------------------------------------------------------------------------
\* DialogState on its own: any sequence of reset() and update(text)
\* ------------------------------------------------------------------------

\* The deepest nesting a behaviour builds up, all six counters together.
MaxDepth == 3
\* The longest text handed to one update().
MaxUpdateLen == 2

\* The twelve quote chars and one char that is none of them.
UpdateChars == DIALOG_OPENERS \cup {8221, 8217, 12301, 12303, 65090, 65092, 30002}  \* ” ’ 」 』 ﹂ ﹄ 甲
UpdateTexts == UNION {[1..n -> UpdateChars] : n \in 0..MaxUpdateLen}

DialogState_depth(ds) ==
    ds.double_quote + ds.single_quote + ds.corner
      + ds.corner_bold + ds.corner_top + ds.corner_wide

DialogInit ==
    /\ engine \in {"lib", "helper"}
    /\ text = <<>> /\ add_pdf_page_header = FALSE /\ compact = FALSE
    /\ pc = "dialog" /\ lines = <<>> /\ i = 0 /\ segments = <<>> /\ buffer = <<>>
    /\ dialog_state = DialogState_new
    /\ rule = "new" /\ result = <<>>
    /\ calls_idle /\ opencc_idle /\ pdf_idle

\* The counter a closing quote char counts down.
closer_counter(ds, ch) ==
    CASE ch = 8221 -> ds.double_quote  \* ”
      [] ch = 8217 -> ds.single_quote  \* ’
      [] ch = 12301 -> ds.corner  \* 」
      [] ch = 12303 -> ds.corner_bold  \* 』
      [] ch = 65090 -> ds.corner_top  \* ﹂
      [] ch = 65092 -> ds.corner_wide  \* ﹄

\* update(s) from ds meets a closer whose counter stands at zero.
meets_orphan_closer(e, ds, s) ==
    \E k \in 1..Len(s) :
        /\ s[k] \in {8221, 8217, 12301, 12303, 65090, 65092}  \* ” ’ 」 』 ﹂ ﹄
        /\ LET before == IF e = "lib" THEN DialogState_update(ds, SubSeq(s, 1, k - 1))
                         ELSE DialogState_update_helper(ds, SubSeq(s, 1, k - 1))
           IN closer_counter(before, s[k]) <= 0

\* dialog_state.reset()
DialogReset ==
    /\ pc = "dialog"
    /\ dialog_state' = DialogState_reset(dialog_state)
    /\ rule' = "reset"
    /\ UNCHANGED <<engine, text, add_pdf_page_header, compact, pc, lines, i,
                   segments, buffer, result>>
    /\ UNCHANGED <<first_call, opencc_vars, pdf_vars>>

\* dialog_state.update(s); rule tells whether s held an orphan closer.
DialogUpdate ==
    /\ pc = "dialog"
    /\ \E s \in UpdateTexts :
         LET next_state == IF engine = "lib" THEN DialogState_update(dialog_state, s)
                           ELSE DialogState_update_helper(dialog_state, s)
         IN /\ DialogState_depth(next_state) <= MaxDepth
            /\ dialog_state' = next_state
            /\ rule' = IF meets_orphan_closer(engine, dialog_state, s)
                       THEN "orphan_closer" ELSE "update"
    /\ UNCHANGED <<engine, text, add_pdf_page_header, compact, pc, lines, i,
                   segments, buffer, result>>
    /\ UNCHANGED <<first_call, opencc_vars, pdf_vars>>

DialogNext == DialogReset \/ DialogUpdate

SpecDialog == DialogInit /\ [][DialogNext]_vars

\* ------------------------------------------------------------------------
\* Call after call of reflow_cjk_paragraphs
\* ------------------------------------------------------------------------

\* The calls made after the first one that a behaviour follows.
MaxLaterCalls == 3

\* 很久很久以前的一天 / 「你好 (ends inside an open quote), 第一章 楔子 /
\* 很久很久以前……, 他說， / 「你好！, a lone blank, and 「你好。」 / (empty) / 嗎？
CallTexts ==
    { join(<<LineLongAgo, LineOpenQuote>>, <<10>>),
      join(<<LineChapterOne, LineOnceUponATime>>, <<10>>),
      join(<<LineHeSaidComma, LineShout>>, <<10>>),
      join(<<LineHello, LineEmpty, LineQuestion>>, <<10>>),
      LineSpace }

CallsInit ==
    /\ engine \in {"lib", "helper"}
    /\ text \in CallTexts
    /\ add_pdf_page_header \in BOOLEAN
    /\ compact \in BOOLEAN
    /\ pc = "entry"
    /\ lines = <<>>
    /\ i = 0
    /\ segments = <<>>
    /\ buffer = <<>>
    /\ dialog_state = DialogState_new
    /\ rule = "none"
    /\ result = <<>>
    /\ calls_idle /\ opencc_idle /\ pdf_idle

\* What first_call keeps of the call that has just returned.
returned_call ==
    [made |-> TRUE, text |-> text, add_pdf_page_header |-> add_pdf_page_header,
     compact |-> compact, result |-> result, later |-> 0]

\* Faulty variant of NewCall: segments outlives the call, as a static would.
NewCall_keeps_segments ==
    /\ pc = "done"
    /\ first_call.made => first_call.later < MaxLaterCalls
    /\ first_call' = IF first_call.made
                     THEN [first_call EXCEPT !.later = @ + 1]
                     ELSE [returned_call EXCEPT !.later = 1]
    /\ text' \in CallTexts
    /\ add_pdf_page_header' \in BOOLEAN
    /\ compact' \in BOOLEAN
    /\ pc' = "entry"
    /\ lines' = <<>>
    /\ i' = 0
    /\ buffer' = <<>>
    /\ dialog_state' = DialogState_new
    /\ rule' = "none"
    /\ result' = <<>>
    /\ UNCHANGED <<engine, segments, opencc_vars, pdf_vars>>

\* The function is called again: new arguments, and segments, buffer and
\* dialog_state are locals of the call, created anew (lib.rs 326-328).
NewCall ==
    /\ pc = "done"
    /\ first_call.made => first_call.later < MaxLaterCalls
    /\ first_call' = IF first_call.made
                     THEN [first_call EXCEPT !.later = @ + 1]
                     ELSE [returned_call EXCEPT !.later = 1]
    /\ text' \in CallTexts
    /\ add_pdf_page_header' \in BOOLEAN
    /\ compact' \in BOOLEAN
    /\ pc' = "entry"
    /\ lines' = <<>>
    /\ i' = 0
    /\ segments' = <<>>
    /\ buffer' = <<>>
    /\ dialog_state' = DialogState_new
    /\ rule' = "none"
    /\ result' = <<>>
    /\ UNCHANGED <<engine, opencc_vars, pdf_vars>>

CallsNext == ReturnUnchanged \/ SplitLines \/ ProcessLine \/ Finish \/ NewCall

SpecCalls == CallsInit /\ [][CallsNext]_vars

\* ------------------------------------------------------------------------
\* The Python class OpenCC
\* ------------------------------------------------------------------------

CONFIG_SET ==
    {"s2t", "t2s", "s2tw", "tw2s", "s2twp", "tw2sp", "s2hk", "hk2s", "t2tw", "tw2t",
     "t2twp", "tw2tp", "t2hk", "hk2t", "t2jp", "jp2t"}

\* The strings handed to the class: the supported names and some others.
ConfigArgs == CONFIG_SET \cup {"", "S2T", "s2t ", "t2s2t", "zh2tw"}

\* format!("Invalid config '{}', reverted to 's2t'", c); <<>> is the empty string.
invalid_config_error(c) == <<"Invalid config '", c, "', reverted to 's2t'">>

\* OpenCC::new(Some(c))
OpenCC_new(c) ==
    IF c \in CONFIG_SET THEN [config |-> c, last_error |-> <<>>]
    ELSE [config |-> "s2t", last_error |-> invalid_config_error(c)]

\* OpenCC::new(None)
OpenCC_new_default == [config |-> "s2t", last_error |-> <<>>]

\* The instance right after OpenCC() or OpenCC(c).
OpenCCInit ==
    /\ \E made \in {OpenCC_new_default} \cup {OpenCC_new(c) : c \in ConfigArgs} :
         config = made.config /\ last_error = made.last_error
    /\ engine = "lib" /\ reflow_idle /\ calls_idle /\ pdf_idle

\* fn apply_config(&mut self, config: &str)
ApplyConfig ==
    /\ \E c \in ConfigArgs :
         IF c \in CONFIG_SET
         THEN config' = c /\ last_error' = <<>>
         ELSE config' = "s2t" /\ last_error' = invalid_config_error(c)
    /\ UNCHANGED <<reflow_vars, first_call, pdf_vars>>

\* instance.config = c in Python: the setter pyo3 derives from
\* #[pyo3(get, set)] stores the string into the field as it is.
SetConfigAttribute ==
    /\ \E c \in ConfigArgs : config' = c
    /\ UNCHANGED <<last_error, reflow_vars, first_call, pdf_vars>>

\* fn convert(&self, ...): reads config, hands it to the conversion engine.
Convert == UNCHANGED vars

\* fn zho_check(&self, ...)
ZhoCheck == UNCHANGED vars

OpenCCNext == ApplyConfig \/ SetConfigAttribute \/ Convert \/ ZhoCheck

SpecOpenCC == OpenCCInit /\ [][OpenCCNext]_vars

\* ------------------------------------------------------------------------
\* extract_pdf_pages_with_callback(path, callback)
\* ------------------------------------------------------------------------
\* engine = "lib" is the copy in lib.rs, "helper" the one in
\* pdf_extract_helper.rs.

\* The most pages a document has.
MaxPages == 3

\* What doc.extract_text(&[page]) yields for a page: Ok(text) or Err.
extract_failed == [ok |-> FALSE, text |-> <<>>]
PageTexts == { <<>>, <<30002>>, <<32, 30002, 13, 10, 20057, 10>>, <<10, 32, 13>> }  \* "甲" " 甲\r\n乙\n" "\n \r"
PageOutcomes == {[ok |-> TRUE, text |-> t] : t \in PageTexts} \cup {extract_failed}

\* A document: whether Document::load succeeds ("ok", "missing", "broken"),
\* its page tree, and what extract_text(path) yields for the whole file.
Documents ==
    {[load |-> "ok", pages |-> ps, whole |-> extract_failed] :
        ps \in UNION {[1..n -> PageOutcomes] : n \in 1..MaxPages}}
    \cup {[load |-> "ok", pages |-> <<>>, whole |-> w] : w \in PageOutcomes}
    \cup {[load |-> l, pages |-> <<>>, whole |-> extract_failed] : l \in {"missing", "broken"}}

\* s.trim_matches('\n')
trim_matches_newline(s) ==
    LET keep == {k \in 1..Len(s) : s[k] # 10}
    IN IF keep = {} THEN <<>> ELSE SubSeq(s, MinOf(keep), MaxOf(keep))

\* while s.ends_with('\n') { s.pop(); }
pop_trailing_newlines(s) ==
    LET keep == {k \in 1..Len(s) : s[k] # 10}
    IN IF keep = {} THEN <<>> ELSE SubSeq(s, 1, MaxOf(keep))

\* lib.rs: a blank page becomes "\n", any other the trimmed text and "\n\n".
normalize_page_text_lib(raw) ==
    LET s == IF contains(raw, 13) THEN normalize_eol(raw) ELSE raw
    IN IF trim(s) = <<>> THEN <<10>> ELSE trim(s) \o <<10, 10>>

\* pdf_extract_helper.rs: a blank page becomes "\n\n", any other the text
\* without its trailing line breaks and "\n\n".
normalize_page_text_helper(raw) ==
    LET s == IF contains(raw, 13) THEN normalize_eol(raw) ELSE raw
    IN IF trim(trim_matches_newline(s)) = <<>> THEN <<10, 10>>
       ELSE pop_trailing_newlines(s) \o <<10, 10>>

normalize_page_text(e, raw) ==
    IF e = "lib" THEN normalize_page_text_lib(raw) ELSE normalize_page_text_helper(raw)

PdfInit ==
    /\ engine \in {"lib", "helper"}
    /\ doc \in Documents
    /\ pdf_pc = "load"
    /\ idx = 0
    /\ callback_log = <<>>
    /\ stderr_log = <<>>
    /\ reflow_idle /\ calls_idle /\ opencc_idle

\* Document::load(path), get_pages(), and the choice of the path to take.
\* lib.rs answers every load error with a RuntimeError, the other copy tells
\* a missing file apart.
PdfLoad ==
    /\ pdf_pc = "load"
    /\ pdf_pc' = IF doc.load = "missing" /\ engine = "helper" THEN "file_not_found"
                 ELSE IF doc.load # "ok" THEN "runtime_error"
                 ELSE IF Len(doc.pages) = 0 THEN "fallback"
                 ELSE "pages"
    /\ UNCHANGED <<doc, idx, callback_log, stderr_log>>
    /\ UNCHANGED <<reflow_vars, first_call, opencc_vars>>

\* Faulty variant of PdfFallback: the callback gets the measured total_pages
\* (0) instead of the literal 1.
PdfFallback_measured_total ==
    /\ pdf_pc = "fallback"
    /\ stderr_log' = Append(stderr_log, 0)
    /\ IF ~doc.whole.ok \/ trim(doc.whole.text) = <<>>
       THEN pdf_pc' = "runtime_error" /\ UNCHANGED callback_log
       ELSE /\ callback_log' =
                 Append(callback_log,
                        <<1, Len(doc.pages), normalize_page_text(engine, doc.whole.text)>>)
            /\ \E raised \in BOOLEAN : pdf_pc' = IF raised THEN "callback_error" ELSE "ok"
    /\ UNCHANGED <<doc, idx>>
    /\ UNCHANGED <<reflow_vars, first_call, opencc_vars>>

\* The page tree is empty: extract_text(path) as a single chunk, reported
\* as page 1 of 1. 0 in stderr_log stands for the warning about the file.
PdfFallback ==
    /\ pdf_pc = "fallback"
    /\ stderr_log' = Append(stderr_log, 0)
    /\ IF ~doc.whole.ok \/ trim(doc.whole.text) = <<>>
       THEN pdf_pc' = "runtime_error" /\ UNCHANGED callback_log
       ELSE /\ callback_log' =
                 Append(callback_log, <<1, 1, normalize_page_text(engine, doc.whole.text)>>)
            /\ \E raised \in BOOLEAN : pdf_pc' = IF raised THEN "callback_error" ELSE "ok"
    /\ UNCHANGED <<doc, idx>>
    /\ UNCHANGED <<reflow_vars, first_call, opencc_vars>>

\* Faulty variant of PdfPage: the callback gets the 0-based index.
PdfPage_zero_based ==
    /\ pdf_pc = "pages"
    /\ idx < Len(doc.pages)
    /\ LET page_number == idx + 1
           extracted == doc.pages[page_number]
           raw == IF extracted.ok THEN extracted.text ELSE <<>>
       IN /\ stderr_log' = IF extracted.ok THEN stderr_log
                           ELSE Append(stderr_log, page_number)
          /\ callback_log' = Append(callback_log,
                 <<idx, Len(doc.pages), normalize_page_text(engine, raw)>>)
    /\ \E raised \in BOOLEAN :
         pdf_pc' = IF raised THEN "callback_error" ELSE "pages"
    /\ idx' = idx + 1
    /\ UNCHANGED doc
    /\ UNCHANGED <<reflow_vars, first_call, opencc_vars>>

\* Faulty variant of PdfPage: a page whose extraction fails ends the call.
PdfPage_fails_with_page ==
    /\ pdf_pc = "pages"
    /\ idx < Len(doc.pages)
    /\ LET page_number == idx + 1
           extracted == doc.pages[page_number]
       IN IF ~extracted.ok
          THEN /\ pdf_pc' = "runtime_error"
               /\ UNCHANGED <<stderr_log, callback_log>>
          ELSE /\ stderr_log' = stderr_log
               /\ callback_log' = Append(callback_log,
                      <<idx + 1, Len(doc.pages), normalize_page_text(engine, extracted.text)>>)
               /\ \E raised \in BOOLEAN :
                    pdf_pc' = IF raised THEN "callback_error" ELSE "pages"
    /\ idx' = idx + 1
    /\ UNCHANGED doc
    /\ UNCHANGED <<reflow_vars, first_call, opencc_vars>>

\* One turn of the loop over the pages: the page is extracted (a failure is
\* warned about and gives the empty text), normalized and handed to the
\* callback as (idx + 1, total_pages, text); a raising callback ends the call.
PdfPage ==
    /\ pdf_pc = "pages"
    /\ idx < Len(doc.pages)
    /\ LET page_number == idx + 1
           extracted == doc.pages[page_number]
           raw == IF extracted.ok THEN extracted.text ELSE <<>>
       IN /\ stderr_log' = IF extracted.ok THEN stderr_log
                           ELSE Append(stderr_log, page_number)
          /\ callback_log' = Append(callback_log,
                 <<idx + 1, Len(doc.pages), normalize_page_text(engine, raw)>>)
    /\ \E raised \in BOOLEAN :
         pdf_pc' = IF raised THEN "callback_error" ELSE "pages"
    /\ idx' = idx + 1
    /\ UNCHANGED doc
    /\ UNCHANGED <<reflow_vars, first_call, opencc_vars>>

\* The loop is over: Ok(()).
PdfReturn ==
    /\ pdf_pc = "pages"
    /\ idx = Len(doc.pages)
    /\ pdf_pc' = "ok"
    /\ UNCHANGED <<doc, idx, callback_log, stderr_log>>
    /\ UNCHANGED <<reflow_vars, first_call, opencc_vars>>

PdfNext == PdfLoad \/ PdfFallback \/ PdfPage \/ PdfReturn

SpecPdf == PdfInit /\ [][PdfNext]_vars
\* ------------------------------------------------------------------------
\* The text helpers called on their own
\* ------------------------------------------------------------------------
\* engine tells whose copy of a helper is called: "lib" (src/lib.rs),
\* "helper" (src/reflow_helper.rs) or "punct_sets" (src/punct_sets.rs).
\* The call reads text; a predicate leaves "true" or "false" in rule, a
\* normalization leaves its output in result; pc names the helper called.

\* punct_sets.rs has_unclosed_bracket: the scan of s[k..] with the stack of
\* openers met so far (top of the stack last).
RECURSIVE bracket_stack_scan(_, _, _, _)
bracket_stack_scan(s, k, stack, seen_bracket) ==
    IF k > Len(s) THEN seen_bracket /\ stack # <<>>
    ELSE IF is_bracket_opener(s[k])
         THEN bracket_stack_scan(s, k + 1, Append(stack, s[k]), TRUE)
    ELSE IF is_bracket_closer(s[k])
         THEN IF stack = <<>> THEN TRUE
              ELSE IF ~is_matching_bracket(stack[Len(stack)], s[k]) THEN TRUE
              ELSE bracket_stack_scan(s, k + 1, SubSeq(stack, 1, Len(stack) - 1), TRUE)
    ELSE bracket_stack_scan(s, k + 1, stack, seen_bracket)

has_unclosed_bracket_punct_sets(s) == bracket_stack_scan(s, 1, <<>>, FALSE)

has_unclosed_bracket(e, s) ==
    CASE e = "lib" -> has_unclosed_bracket_lib(s)
      [] e = "helper" -> has_unclosed_bracket_helper(s)
      [] e = "punct_sets" -> has_unclosed_bracket_punct_sets(s)

\* The longest text over a small alphabet handed to a helper.
MaxHelperLen == 4

\* （ ） [ ] and one char that is no bracket
BracketChars == {65288, 65289, 91, 93, 30002}  \* （ ） [ ] 甲
BracketTexts == UNION {[1..n -> BracketChars] : n \in 0..MaxHelperLen}

\* The two copies of ends_with_sentence_boundary (lib.rs has none).
ends_with_sentence_boundary_of(e, s) ==
    CASE e = "helper" -> ends_with_sentence_boundary(s)
      [] e = "punct_sets" -> ends_with_sentence_boundary_punct_sets(s)

\* 你 a . 。 」 ） and the space
BoundaryChars == {20320, 97, 46, 12290, 12301, 65289, 32}  \* 你 a . 。 」 ）  
BoundaryFreeTexts == UNION {[1..n -> BoundaryChars] : n \in 0..MaxHelperLen}

\* A body (你好, a, or nothing), a strong terminator, a closer of the
\* dialogue-closer set or of the bracket-pair table, with or without a space
\* before the closer and behind it.
AllClosers == DIALOG_CLOSERS \cup {p[2] : p \in BRACKET_PAIRS}
CloserTexts ==
    {body \o <<t>> \o gap \o <<c>> \o tail :
        body \in {<<20320, 22909>>, <<97>>, <<>>}, t \in {12290, 65281, 65311, 33, 63}, c \in AllClosers,  \* "你好" "a" 。 ！ ？ ! ?
        gap \in {<<>>, <<32>>}, tail \in {<<>>, <<32>>}}  \* " " " "

BoundaryTexts == BoundaryFreeTexts \cup CloserTexts

\* The two copies of is_title_heading_line.
is_title_heading_line(e, s) ==
    CASE e = "lib" -> is_title_heading_line_lib(s)
      [] e = "helper" -> is_title_heading_line_helper(s)

\* The longest run of 甲 behind the prefix of a heading text.
MaxSuffixLen == 17

\* 番外, 前言, 第一章 or nothing, then up to MaxSuffixLen times 甲, then
\* nothing or a full stop.
HeadingTexts ==
    {prefix \o [k \in 1..n |-> 30002] \o tail :  \* 甲
        prefix \in {<<30058, 22806>>, <<21069, 35328>>, <<31532, 19968, 31456>>, <<>>}, n \in 0..MaxSuffixLen,  \* "番外" "前言" "第一章"
        tail \in {<<>>, <<12290>>}}  \* "。"

\* The most tokens of a line handed to the phrase-level collapse.
MaxTokens == 6

\* Lines of up to MaxTokens tokens, each 甲 or 乙, one space apart.
PhraseTexts ==
    {join(ts, <<32>>) : ts \in UNION {[1..n -> {<<30002>>, <<20057>>}] : n \in 0..MaxTokens}}  \* " " "甲" "乙"

\* The most copies of a unit in a token handed to the token-level collapse.
MaxRepeats == 12

\* Tokens that are 1..MaxRepeats copies of a unit of 1 to 5 chars, as they
\* are or with one odd char behind them.
TokenTexts ==
    {join([k \in 1..n |-> unit], <<>>) \o tail :
        unit \in {<<21704>>, <<30002, 20057>>, <<30002, 20057, 19993>>, <<30002, 20057, 19993, 19969>>, <<30002, 20057, 19993, 19969, 25098>>},  \* "哈" "甲乙" "甲乙丙" "甲乙丙丁" "甲乙丙丁戊"
        n \in 1..MaxRepeats, tail \in {<<>>, <<24049>>}}  \* "己"

HelperTexts ==
    BracketTexts \cup BoundaryTexts \cup HeadingTexts \cup PhraseTexts \cup TokenTexts

verdict(b) == IF b THEN "true" ELSE "false"

HelperInit ==
    /\ engine \in {"lib", "helper", "punct_sets"}
    /\ text \in HelperTexts
    /\ add_pdf_page_header = FALSE /\ compact = FALSE
    /\ pc = "entry" /\ lines = <<>> /\ i = 0 /\ segments = <<>> /\ buffer = <<>>
    /\ dialog_state = DialogState_new
    /\ rule = "none" /\ result = <<>>
    /\ calls_idle /\ opencc_idle /\ pdf_idle

\* has_unclosed_bracket(text)
HasUnclosedBracket ==
    /\ pc = "entry"
    /\ text \in BracketTexts
    /\ rule' = verdict(has_unclosed_bracket(engine, text))
    /\ pc' = "has_unclosed_bracket"
    /\ UNCHANGED <<engine, text, add_pdf_page_header, compact, lines, i,
                   segments, buffer, dialog_state, result>>
    /\ UNCHANGED <<first_call, opencc_vars, pdf_vars>>

\* ends_with_sentence_boundary(text)
EndsWithSentenceBoundary ==
    /\ pc = "entry"
    /\ engine \in {"helper", "punct_sets"}
    /\ text \in BoundaryTexts
    /\ rule' = verdict(ends_with_sentence_boundary_of(engine, text))
    /\ pc' = "ends_with_sentence_boundary"
    /\ UNCHANGED <<engine, text, add_pdf_page_header, compact, lines, i,
                   segments, buffer, dialog_state, result>>
    /\ UNCHANGED <<first_call, opencc_vars, pdf_vars>>

\* is_title_heading_line(text)
IsTitleHeadingLine ==
    /\ pc = "entry"
    /\ engine \in {"lib", "helper"}
    /\ text \in HeadingTexts
    /\ rule' = verdict(is_title_heading_line(engine, text))
    /\ pc' = "is_title_heading_line"
    /\ UNCHANGED <<engine, text, add_pdf_page_header, compact, lines, i,
                   segments, buffer, dialog_state, result>>
    /\ UNCHANGED <<first_call, opencc_vars, pdf_vars>>

\* collapse_repeated_word_sequences(&parts) on the tokens of text: lines
\* holds the tokens handed in, segments the tokens returned.
CollapseRepeatedWordSequences ==
    /\ pc = "entry"
    /\ engine \in {"lib", "helper"}
    /\ text \in PhraseTexts
    /\ lines' = split_whitespace(text)
    /\ segments' = collapse_repeated_word_sequences(lines')
    /\ pc' = "collapse_repeated_word_sequences"
    /\ UNCHANGED <<engine, text, add_pdf_page_header, compact, i,
                   buffer, dialog_state, rule, result>>
    /\ UNCHANGED <<first_call, opencc_vars, pdf_vars>>

\* collapse_repeated_token(text)
CollapseRepeatedToken ==
    /\ pc = "entry"
    /\ engine \in {"lib", "helper"}
    /\ text \in TokenTexts
    /\ result' = collapse_repeated_token(text)
    /\ pc' = "collapse_repeated_token"
    /\ UNCHANGED <<engine, text, add_pdf_page_header, compact, lines, i,
                   segments, buffer, dialog_state, rule>>
    /\ UNCHANGED <<first_call, opencc_vars, pdf_vars>>

HelperNext ==
    \/ HasUnclosedBracket \/ EndsWithSentenceBoundary \/ IsTitleHeadingLine
    \/ CollapseRepeatedWordSequences \/ CollapseRepeatedToken

SpecHelpers == HelperInit /\ [][HelperNext]_vars

\* ------------------------------------------------------------------------
\* Vocabulary of the properties
\* ------------------------------------------------------------------------

Last(s) == s[Len(s)]

\* A step that processes the line lines[i + 1].
LineStep == pc = "loop" /\ i' = i + 1

\* The segments once a buffer buf has been flushed behind them.
flushed(segs, buf) == IF buf # <<>> THEN Append(segs, buf) ELSE segs

blank_line(l) == \A k \in DOMAIN l : is_whitespace(l[k])

\* Only divider glyphs (and whitespace), at least 3 of them.
divider_line(l) ==
    /\ Cardinality({k \in DOMAIN l : ~is_whitespace(l[k])}) >= 3
    /\ \A k \in DOMAIN l : is_whitespace(l[k]) \/ is_divider_glyph(l[k])

\* The trimmed line starts with "=== " and ends with "===".
page_marker_line(l) ==
    starts_with(trim(l), <<61, 61, 61, 32>>) /\ ends_with(trim(l), <<61, 61, 61>>)  \* "=== " "==="

\* The classifier of the engine that runs.
metadata_line(l) ==
    IF engine = "lib" THEN is_metadata_line_lib(l) ELSE is_metadata_line_helper(l)
title_heading_line(l) ==
    IF engine = "lib" THEN is_title_heading_line_lib(l) ELSE is_title_heading_line_helper(l)
heading_like_line(l) ==
    IF engine = "lib" THEN is_heading_like_lib(l) ELSE is_heading_like_helper(l)

\* A line the driver handles as a strong title heading.
chapter_heading_line(l) ==
    /\ ~blank_line(l) /\ ~divider_line(l) /\ ~page_marker_line(l)
    /\ ~metadata_line(line_text_of(l))
    /\ title_heading_line(trim_indent(line_text_of(l)))

\* A line that is none of blank, divider, page marker, metadata or heading.
ordinary_text_line(l) ==
    /\ ~blank_line(l) /\ ~divider_line(l) /\ ~page_marker_line(l)
    /\ ~metadata_line(line_text_of(l))
    /\ ~title_heading_line(trim_indent(line_text_of(l)))
    /\ ~heading_like_line(line_text_of(l))

\* The text a standalone line is emitted with.
standalone_text(l) == IF divider_line(l) THEN stripped_visual_of(l) ELSE line_text_of(l)

\* The line is one token, 3 or more times.
repeated_token_line(l) ==
    LET parts == split_whitespace(l)
    IN Len(parts) >= 3 /\ \A k \in 1..Len(parts) : parts[k] = parts[1]

\* The text of the line lines[i + 1] as a step on a non-blank line recorded
\* it: what it appended to the buffer or started the buffer with, or else what
\* it pushed as a segment (behind the buffer, when it pushed both as one).
recorded_text ==
    IF segments' = segments
    THEN SubSeq(buffer', Len(buffer) + 1, Len(buffer'))
    ELSE IF buffer' # <<>> THEN buffer'
    ELSE IF Len(segments') = Len(segments) + 1 /\ buffer # <<>>
    THEN SubSeq(Last(segments'), Len(buffer) + 1, Len(Last(segments')))
    ELSE Last(segments')

\* ------------------------------------------------------------------------
\* Properties
\* ------------------------------------------------------------------------

\* C1: a text of whitespace chars only (the empty text included) is returned
\* unchanged, whatever the engine and the two options are.
C1_WhitespaceOnlyUnchanged ==
    (pc = "done" /\ \A k \in DOMAIN text : is_whitespace(text[k])) => result = text

\* " \n" U+3000 "\r" came back as it was, with both options set.
C1_Witness ==
    /\ pc = "done"
    /\ text = <<32, 10, 12288, 13>>  \* " \n[U+3000]\r"
    /\ result = text
    /\ add_pdf_page_header
    /\ compact

\* C2: a divider line between two lines that are neither blank nor dividers
\* yields exactly three segments: the text before, the divider, the text after.
C2_DividerBetweenTextLines ==
    (/\ pc = "done"
     /\ Len(lines) = 3
     /\ divider_line(lines[2])
     /\ ~blank_line(lines[1]) /\ ~divider_line(lines[1])
     /\ ~blank_line(lines[3]) /\ ~divider_line(lines[3]))
    => segments = <<line_text_of(lines[1]), stripped_visual_of(lines[2]),
                    line_text_of(lines[3])>>

\* Ten box-drawing dashes between two copies of a line that needs a buffer,
\* page gaps not preserved.
C2_Witness ==
    /\ pc = "done"
    /\ ~add_pdf_page_header
    /\ lines = <<LineLongAgo, LineDivider, LineLongAgo>>
    /\ segments = <<LineLongAgo, LineDivider, LineLongAgo>>

\* C3: a step on a page-marker line flushes the buffer and pushes the line as
\* a segment of its own, leaving the buffer empty; the step after it leaves
\* the segments pushed so far as they are.
C3_PageMarkerStandalone ==
    [][/\ (LineStep /\ page_marker_line(lines[i + 1]))
            => /\ buffer' = <<>>
               /\ segments' = Append(flushed(segments, buffer),
                                     standalone_text(lines[i + 1]))
       /\ (LineStep /\ i >= 1 /\ page_marker_line(lines[i]))
            => /\ Len(segments') >= Len(segments)
               /\ SubSeq(segments', 1, Len(segments)) = segments]_vars

\* "=== [3/20] ===" came behind a buffer with an open dialogue quote.
C3_Witness ==
    /\ pc = "loop"
    /\ i = 2
    /\ lines[1] = LineOpenQuote
    /\ lines[2] = LinePageMarker
    /\ rule = "page_marker"
    /\ segments = <<LineOpenQuote, LinePageMarker>>
    /\ buffer = <<>>

\* C4: a step on a metadata line (known key, separator, non-dialogue value)
\* flushes the buffer as a segment of its own and pushes the line as one
\* more segment, leaving the buffer empty.
C4_MetadataStandalone ==
    [][(LineStep /\ metadata_line(stripped_visual_of(lines[i + 1])))
        => /\ buffer' = <<>>
           /\ Len(segments') = Len(flushed(segments, buffer)) + 1
           /\ SubSeq(segments', 1, Len(segments') - 1) = flushed(segments, buffer)]_vars

\* C5: after a chapter heading line and then an ordinary text line, the
\* heading is the last segment and the buffer holds the text line alone.
C5_HeadingThenText ==
    (/\ pc = "loop"
     /\ i >= 2
     /\ chapter_heading_line(lines[i - 1])
     /\ ordinary_text_line(lines[i]))
    => /\ segments # <<>>
       /\ Last(segments) = line_text_of(lines[i - 1])
       /\ buffer = line_text_of(lines[i])
       /\ rule = "first_line"

\* "第一章 楔子" then "很久很久以前……".
C5_Witness ==
    /\ pc = "loop"
    /\ i = 2
    /\ lines[1] = LineChapterOne
    /\ lines[2] = LineOnceUponATime
    /\ segments = <<LineChapterOne>>
    /\ buffer = LineOnceUponATime

\* C6 as stated: a line of one token 3 or more times is recorded as that token.
C6_RepeatedTokenSingle ==
    [][(LineStep /\ repeated_token_line(lines[i + 1]))
        => recorded_text = split_whitespace(lines[i + 1])[1]]_vars

\* C7: after a line ending in a colon and then the line 「你好。」, the two
\* are one segment and the buffer is empty.
C7_ColonThenDialogueMerged ==
    (/\ pc = "loop"
     /\ i = 2
     /\ lines[1] \in {LineHeSaid, LineHeToldMe}
     /\ lines[2] = LineHello)
    => /\ buffer = <<>>
       /\ segments = <<lines[1] \o LineHello>>

\* C8: reflowing the segments joined by blank lines, with the same options,
\* gives the same segments.
C8_StableOnOwnOutput ==
    (pc = "done" /\ ~blank_line(text))
    => reflow_segments(engine, join(segments, <<10, 10>>), add_pdf_page_header) = segments

\* C9: the text recorded for a non-blank line that begins with U+3000 begins
\* with U+3000.
C9_FullwidthIndentKept ==
    [][(LineStep /\ ~blank_line(lines[i + 1]) /\ first_char(lines[i + 1]) = 12288)
        => first_char(recorded_text) = 12288]_vars

\* C10: no segment is ever blank, and a step on a blank line pushes nothing
\* but a buffer that was not empty.
C10_NoBlankSegment ==
    [][/\ \A k \in DOMAIN segments' : ~blank_line(segments'[k])
       /\ (LineStep /\ blank_line(lines[i + 1]))
            => /\ segments' \in {segments, flushed(segments, buffer)}
               /\ buffer = <<>> => segments' = segments]_vars

\* A blank line flushed the buffer that the line before it had left.
C10_Witness ==
    /\ pc = "loop"
    /\ i = 2
    /\ lines[1] = LineLongAgo
    /\ blank_line(lines[2])
    /\ rule = "blank_flush"
    /\ segments = <<LineLongAgo>>
    /\ buffer = <<>>

\* C11: after any sequence of reset() and update(text), each of the six
\* nesting counters is at least zero.
C11_CountersNonNegative ==
    /\ dialog_state.double_quote >= 0
    /\ dialog_state.single_quote >= 0
    /\ dialog_state.corner >= 0
    /\ dialog_state.corner_bold >= 0
    /\ dialog_state.corner_top >= 0
    /\ dialog_state.corner_wide >= 0

\* An update met an orphan closer and left an opener counted.
C11_Witness ==
    /\ pc = "dialog" /\ rule = "orphan_closer"
    /\ dialog_state = [DialogState_new EXCEPT !.corner = 1]

\* C12: after processing any line, if the paragraph buffer is empty then all
\* six nesting counters are zero.
C12_EmptyBufferZeroCounters ==
    (pc = "loop" /\ i >= 1 /\ buffer = <<>>) => dialog_state = DialogState_new

\* C13: the segment list is append-only: every step of a call, the final
\* flush included, keeps the segments it found as a prefix of the segments it
\* leaves.
C13_SegmentsAppendOnly ==
    [][/\ Len(segments') >= Len(segments)
       /\ SubSeq(segments', 1, Len(segments)) = segments]_vars

\* Three lines gave three segments, one at a time.
C13_Witness ==
    /\ pc = "done" /\ lines = <<LineLongAgo, LineDivider, LineLongAgo>>
    /\ segments = <<LineLongAgo, LineDivider, LineLongAgo>>
    /\ result = join(segments, <<10>>)

\* The lines of an output read back: in compact mode they are the segments,
\* in spaced mode the segments with one empty line between neighbours.
output_is_joined(out, segs, compact_mode) ==
    LET read == split_lines(out)
    IN IF compact_mode THEN read = segs
       ELSE /\ Len(read) = 2 * Len(segs) - 1
            /\ \A k \in 1..Len(segs) : read[2 * k - 1] = segs[k]
            /\ \A k \in 1..(Len(segs) - 1) : read[2 * k] = <<>>

\* C14 as stated: for every text, the segment sequence does not depend on the
\* mode, and the output is those segments joined by one line break (compact)
\* or by a blank line (spaced), with no leading or trailing separator.
C14_OutputIsJoinedSegments ==
    pc = "done"
    => /\ result = join(segments, IF compact THEN <<10>> ELSE <<10, 10>>)
       /\ (segments # <<>> => output_is_joined(result, segments, compact))

\* C14, amended: the same for every text that is not whitespace-only.
C14_OutputIsJoinedUnlessBlank ==
    (pc = "done" /\ ~blank_line(text))
    => /\ segments # <<>>
       /\ segments = reflow_segments(engine, text, add_pdf_page_header)
       /\ result = join(segments, IF compact THEN <<10>> ELSE <<10, 10>>)
       /\ output_is_joined(result, segments, compact)

\* Two segments, spaced mode: one blank line between them.
C14_Witness ==
    /\ pc = "done" /\ ~compact
    /\ segments = <<LineChapterOne, LineOnceUponATime>>
    /\ result = LineChapterOne \o <<10, 10>> \o LineOnceUponATime

\* The text s with each of its line breaks "\n" written as eol.
with_line_breaks(s, eol) == join(split_lines(s), eol)

\* C15: for a text that is not whitespace-only, writing each line break as
\* CRLF or as a lone CR instead of LF gives the identical output.
C15_LineEndingsUnified ==
    (pc = "done" /\ ~blank_line(text))
    => /\ reflow_cjk_paragraphs(engine, with_line_breaks(text, <<13, 10>>),
                                add_pdf_page_header, compact) = result
       /\ reflow_cjk_paragraphs(engine, with_line_breaks(text, <<13>>),
                                add_pdf_page_header, compact) = result

\* A text of three lines, whose CR form is one line unless CR is unified.
C15_Witness ==
    /\ pc = "done" /\ text = join(<<LineChapterOne, LineOnceUponATime, LineHello>>, <<10>>)
    /\ segments = <<LineChapterOne, LineOnceUponATime, LineHello>>
    /\ split_lines(with_line_breaks(text, <<13>>)) = <<with_line_breaks(text, <<13>>)>>

\* The steps a call still has to take: the split (or the early return), one
\* turn of the loop for each line not yet handled, and the final flush.
call_steps_left ==
    CASE pc = "entry" -> Len(split_lines(normalize_eol(text))) + 2
      [] pc = "loop" -> Len(lines) - i + 1
      [] OTHER -> 0

\* C16: for every input text and every combination of the two options the
\* call terminates and returns a string: until it has returned, the call is
\* at the entry or at a line of the loop (where the early return, the split,
\* the loop body or the final flush applies), and every step leaves fewer
\* steps to take. The only way out of the loop is the Ok(...) of lib.rs 549.
C16_CallReturns ==
    /\ [](\/ pc = "entry"
          \/ pc = "loop" /\ i <= Len(lines)
          \/ pc = "done" /\ call_steps_left = 0)
    /\ [][call_steps_left' < call_steps_left]_vars

\* The longest loop has run to its end and the call has returned.
C16_Witness ==
    /\ pc = "done" /\ Len(lines) = MaxLines /\ i = MaxLines
    /\ segments # <<>> /\ result = join_segments(segments, compact)

\* C17: a call with the text and the options of the first call returns what
\* the first call returned, whatever calls were made in between.
C17_SameCallSameOutput ==
    (/\ pc = "done" /\ first_call.made
     /\ first_call.text = text
     /\ first_call.add_pdf_page_header = add_pdf_page_header
     /\ first_call.compact = compact)
    => result = first_call.result

\* The third call repeats the first, which ended inside an open quote.
C17_Witness ==
    /\ pc = "done" /\ first_call.made /\ first_call.later = 2
    /\ first_call.text = text /\ text = join(<<LineLongAgo, LineOpenQuote>>, <<10>>)
    /\ first_call.add_pdf_page_header = add_pdf_page_header
    /\ first_call.compact = compact
    /\ result = first_call.result /\ Len(segments) = 2

\* C18: after any sequence of operations on an OpenCC instance, its config
\* is one of the 16 supported configuration names.
C18_ConfigAlwaysSupported == config \in CONFIG_SET

\* C19: for a document of N >= 1 pages the callback is invoked in page
\* order with the indices 1, 2, ... and total_pages = N on every call, and,
\* unless the callback raises, exactly N times before the call returns.
C19_CallbackOncePerPage ==
    (pdf_pc \in {"pages", "ok", "callback_error"} /\ Len(doc.pages) >= 1)
    => /\ Len(callback_log) = idx
       /\ \A k \in 1..Len(callback_log) :
            callback_log[k][1] = k /\ callback_log[k][2] = Len(doc.pages)
       /\ (pdf_pc = "ok" => Len(callback_log) = Len(doc.pages))

\* A document of three pages was reported in three calls.
C19_Witness ==
    /\ pdf_pc = "ok" /\ Len(doc.pages) = 3 /\ \A k \in 1..3 : doc.pages[k].ok
    /\ Len(callback_log) = 3 /\ callback_log[3][1] = 3 /\ callback_log[3][2] = 3

\* C20: a page whose extraction fails is reported to the callback as a blank
\* page, the pages after it are still reported in order, and the call does
\* not end with an error of its own (it returns success unless the callback
\* raises).
C20_FailedPageIsBlankPage ==
    (doc.load = "ok" /\ Len(doc.pages) >= 1)
    => /\ pdf_pc \in {"load", "pages", "ok", "callback_error"}
       /\ (pdf_pc = "pages" => Len(callback_log) = idx)
       /\ (pdf_pc = "ok" => Len(callback_log) = Len(doc.pages))
       /\ \A k \in 1..Len(callback_log) :
            /\ callback_log[k][1] = k
            /\ (~doc.pages[k].ok
                  => /\ blank_line(callback_log[k][3])
                     /\ callback_log[k][3] = normalize_page_text(engine, <<>>))
            /\ (doc.pages[k].ok
                  => callback_log[k][3] = normalize_page_text(engine, doc.pages[k].text))

\* The first of three pages failed, all three were reported, the call
\* returned Ok.
C20_Witness ==
    /\ pdf_pc = "ok" /\ Len(doc.pages) = 3 /\ ~doc.pages[1].ok
    /\ doc.pages[2].ok /\ doc.pages[2].text = <<30002>>  \* "甲"
    /\ Len(callback_log) = 3 /\ blank_line(callback_log[1][3])
    /\ callback_log[2][3] = <<30002, 10, 10>> /\ stderr_log = <<1>>  \* "甲\n\n"

\* The call is over for a document whose page tree is empty.
zero_page_call_over ==
    /\ doc.load = "ok" /\ Len(doc.pages) = 0
    /\ pdf_pc \in {"ok", "callback_error", "runtime_error"}

\* C21 (as claimed): for a document whose page tree reports zero pages the
\* callback is invoked exactly once, with page index 1 and total_pages 1.
C21_ZeroPagesOneCallback ==
    zero_page_call_over
    => Len(callback_log) = 1 /\ callback_log[1][1] = 1 /\ callback_log[1][2] = 1

\* C21 (amended): for a zero-page document whose whole-document extraction
\* succeeds with a text that is not whitespace-only, the callback is invoked
\* exactly once, with page index 1 and total_pages 1, and the file warning is
\* the only warning; when the extraction fails or yields only whitespace the
\* call ends with a RuntimeError and the callback is never invoked.
C21_ZeroPagesOneCallbackIfText ==
    /\ zero_page_call_over
       => IF doc.whole.ok /\ ~blank_line(doc.whole.text)
          THEN /\ pdf_pc \in {"ok", "callback_error"}
               /\ Len(callback_log) = 1
               /\ callback_log[1][1] = 1 /\ callback_log[1][2] = 1
               /\ ~blank_line(callback_log[1][3])
               /\ stderr_log = <<0>>
          ELSE pdf_pc = "runtime_error" /\ callback_log = <<>>
    /\ (doc.load = "ok" /\ Len(doc.pages) = 0) => idx = 0 /\ Len(callback_log) <= 1

\* A zero-page document whose whole text is " 甲 CR LF 乙 LF" was reported
\* in one call as page 1 of 1.
C21_Witness ==
    /\ pdf_pc = "ok" /\ doc.load = "ok" /\ doc.pages = <<>>
    /\ doc.whole.ok /\ doc.whole.text = <<32, 30002, 13, 10, 20057, 10>>  \* " 甲\r\n乙\n"
    /\ Len(callback_log) = 1 /\ callback_log[1][1] = 1 /\ callback_log[1][2] = 1

\* The unmatched-bracket test of the engine that runs.
unclosed_bracket(s) ==
    IF engine = "lib" THEN has_unclosed_bracket_lib(s) ELSE has_unclosed_bracket_helper(s)

\* The buffer is inside a quote or a bracket that is still open.
inside_open_nesting == DialogState_is_unclosed(dialog_state) \/ unclosed_bracket(buffer)

\* C22: with page-gap suppression (add_pdf_page_header = FALSE), a blank
\* line that arrives while the buffer is inside an unclosed quote or bracket
\* changes none of buffer, segments and nesting state.
C22_BlankInsideQuoteSuppressed ==
    [][(/\ LineStep
        /\ ~add_pdf_page_header
        /\ blank_line(lines[i + 1])
        /\ buffer # <<>>
        /\ inside_open_nesting)
        => UNCHANGED <<buffer, segments, dialog_state>>]_vars

\* C23: with page-gap suppression, a non-empty buffer and no open quote or
\* bracket, a blank line flushes the buffer (the buffer becomes the last
\* segment, the buffer is empty, the counters are zero) exactly when the
\* buffer ends in a strong sentence boundary of the boundary detector, and in
\* every other case it changes none of buffer, segments and nesting state.
C23_BlankFlushesAtBoundaryOnly ==
    [][(/\ LineStep
        /\ ~add_pdf_page_header
        /\ blank_line(lines[i + 1])
        /\ buffer # <<>>
        /\ ~inside_open_nesting)
        => IF ends_with_sentence_boundary_punct_sets(buffer)
           THEN /\ segments' = Append(segments, buffer)
                /\ buffer' = <<>>
                /\ dialog_state' = DialogState_new
           ELSE UNCHANGED <<buffer, segments, dialog_state>>]_vars

\* The line is ordinary text whose last char is one of 。！？!?
strong_terminated_line(l) ==
    /\ ordinary_text_line(l)
    /\ is_strong_sentence_end(last_char(trim_end(line_text_of(l))))

\* C24: an ordinary line ending in a strong terminator that arrives at a
\* non-empty buffer is appended and the buffer is flushed at once when the
\* buffer has no open bracket or quote; while one is open the line is
\* appended and nothing is flushed.
C24_StrongLineFlushesUnlessOpen ==
    [][(/\ LineStep
        /\ buffer # <<>>
        /\ strong_terminated_line(lines[i + 1]))
        => IF inside_open_nesting
           THEN /\ segments' = segments
                /\ buffer' = buffer \o line_text_of(lines[i + 1])
           ELSE /\ segments' = Append(segments, buffer \o line_text_of(lines[i + 1]))
                /\ buffer' = <<>>]_vars

\* ， 、
comma_like(ch) == ch \in {65292, 12289}  \* ， 、

\* An ordinary line that begins (behind its indent) with a dialogue opener
\* and does not end in a strong terminator.
dialogue_opening_line(l) ==
    /\ ordinary_text_line(l)
    /\ is_dialog_start(line_text_of(l))
    /\ ~is_strong_sentence_end(last_char(trim_end(line_text_of(l))))

\* C25: a dialogue-opening line that arrives at a non-empty buffer whose
\* last non-whitespace char is comma-like or a CJK ideograph is appended to
\* the buffer and nothing is flushed.
C25_DialogueStartKeepsUnfinishedBuffer ==
    [][(/\ LineStep
        /\ buffer # <<>>
        /\ dialogue_opening_line(lines[i + 1])
        /\ (comma_like(last_non_ws(buffer)) \/ is_cjk_bmp(last_non_ws(buffer))))
        => /\ segments' = segments
           /\ buffer' = buffer \o line_text_of(lines[i + 1])]_vars

\* A line that reaches the short-heading rule and is heading-like.
short_heading_line(l) ==
    /\ ~blank_line(l) /\ ~divider_line(l) /\ ~page_marker_line(l)
    /\ ~metadata_line(line_text_of(l))
    /\ ~title_heading_line(trim_indent(line_text_of(l)))
    /\ heading_like_line(line_text_of(l))

\* C26: a short heading-like line that arrives while the buffer has an
\* unmatched open bracket emits no segment, and afterwards the buffer is the
\* old buffer followed by the line.
C26_HeadingInsideBracketContinues ==
    [][(/\ LineStep
        /\ buffer # <<>>
        /\ short_heading_line(lines[i + 1])
        /\ unclosed_bracket(buffer))
        => /\ segments' = segments
           /\ buffer' = buffer \o line_text_of(lines[i + 1])]_vars

\* C27: a short heading-like line that arrives while the buffer's last
\* non-whitespace char is comma-like stays with the buffer: either it is
\* appended to the buffer and nothing is emitted, or the buffer with the
\* line appended is emitted as one segment.
C27_HeadingAfterCommaNotSplit ==
    [][(/\ LineStep
        /\ buffer # <<>>
        /\ short_heading_line(lines[i + 1])
        /\ comma_like(last_non_ws(buffer)))
        => \/ /\ segments' = segments
              /\ buffer' = buffer \o line_text_of(lines[i + 1])
           \/ /\ segments' = Append(segments, buffer \o line_text_of(lines[i + 1]))
              /\ buffer' = <<>>]_vars

\* The chapter-ending test of the engine that runs.
chapter_ending_line(s) ==
    IF engine = "lib" THEN is_chapter_ending_line_lib(s) ELSE is_chapter_ending_line_helper(s)

\* An ordinary line whose last char is a quote or corner-bracket closer that
\* stands right behind a strong terminator, e.g. 嗎？」
dialogue_closing_line(l) ==
    LET t == trim_end(line_text_of(l))
    IN /\ ordinary_text_line(l)
       /\ Len(t) >= 2
       /\ is_dialog_closer(t[Len(t)])
       /\ is_strong_sentence_end(t[Len(t) - 1])

\* C28: a line ending in a quote closer behind a terminator, arriving at a
\* buffer inside an open quote, is appended and the buffer is flushed at once
\* (the buffer is empty after the step) when the line leaves every nesting
\* counter at zero and the buffer with the line has no unmatched bracket
\* (buffers that are chapter-ending lines, which C30 is about, left aside).
C28_DialogueCloseFlushes ==
    [][(/\ LineStep
        /\ buffer # <<>>
        /\ DialogState_is_unclosed(dialog_state)
        /\ ~chapter_ending_line(buffer)
        /\ dialogue_closing_line(lines[i + 1])
        /\ ~is_dialog_start(line_text_of(lines[i + 1]))
        /\ ~DialogState_is_unclosed(
               DialogState_update(dialog_state, line_text_of(lines[i + 1])))
        /\ ~unclosed_bracket(buffer \o line_text_of(lines[i + 1])))
        => /\ segments' = Append(segments, buffer \o line_text_of(lines[i + 1]))
           /\ buffer' = <<>>]_vars

\* An ordinary line that neither opens a dialogue nor ends in a strong
\* terminator: only the boundary rules and the soft join apply to it.
plain_text_line(l) ==
    /\ ordinary_text_line(l)
    /\ ~is_dialog_start(line_text_of(l))
    /\ ~is_strong_sentence_end(last_char(trim_end(line_text_of(l))))

\* C29: while a quote counter is positive, a plain text line arriving at a
\* buffer that ends in a sentence boundary or a balanced bracket boundary is
\* appended to the buffer and no segment is emitted.
C29_NoBoundaryFlushInsideQuote ==
    [][(/\ LineStep
        /\ buffer # <<>>
        /\ DialogState_is_unclosed(dialog_state)
        /\ plain_text_line(lines[i + 1])
        /\ (ends_with_sentence_boundary(buffer) \/ ends_with_cjk_bracket_boundary(buffer)))
        => /\ segments' = segments
           /\ buffer' = buffer \o line_text_of(lines[i + 1])]_vars

\* C30: while a quote counter is positive, a plain text line arriving at a
\* buffer that is itself a chapter-ending line is appended to the buffer: the
\* chapter-ending flush waits until the nesting is closed.
C30_NoChapterFlushInsideQuote ==
    [][(/\ LineStep
        /\ buffer # <<>>
        /\ DialogState_is_unclosed(dialog_state)
        /\ chapter_ending_line(buffer)
        /\ plain_text_line(lines[i + 1]))
        => /\ segments' = segments
           /\ buffer' = buffer \o line_text_of(lines[i + 1])]_vars

\* A line one of the forced-break rules handles: a divider, or a non-blank
\* line that is a page marker, a metadata line or a strong title heading.
forced_break_line(l) ==
    \/ divider_line(l)
    \/ /\ ~blank_line(l)
       /\ \/ page_marker_line(l)
          \/ metadata_line(line_text_of(l))
          \/ title_heading_line(trim_indent(line_text_of(l)))

\* C31: once a divider, page-marker, metadata or strong-heading line has been
\* processed, whatever quote or bracket the buffer was inside, the buffer is
\* empty, all six nesting counters are zero and the last segment is that line.
C31_ForcedBreakFlushes ==
    (pc = "loop" /\ i >= 1 /\ forced_break_line(lines[i]))
    => /\ buffer = <<>>
       /\ dialog_state = DialogState_new
       /\ segments # <<>> /\ Last(segments) = standalone_text(lines[i])

\* The bracket chars of s, in order.
bracket_chars(s) == SelectSeq(s, LAMBDA ch : is_bracket_opener(ch) \/ is_bracket_closer(ch))

\* bs is properly nested and fully matched: it is empty, or taking out some
\* adjacent opener and closer of one pair leaves a properly nested sequence.
RECURSIVE properly_nested(_)
properly_nested(bs) ==
    \/ bs = <<>>
    \/ \E k \in 1..(Len(bs) - 1) :
         /\ is_matching_bracket(bs[k], bs[k + 1])
         /\ properly_nested(SubSeq(bs, 1, k - 1) \o SubSeq(bs, k + 2, Len(bs)))

\* C32: has_unclosed_bracket(s) is false exactly when the bracket chars of s
\* form a properly nested, fully matched sequence (an s without brackets
\* included); an unmatched opener, a stray closer and a type mismatch each
\* make it true.
C32_UnclosedIffNotNested ==
    pc = "has_unclosed_bracket"
    => (rule = "false" <=> properly_nested(bracket_chars(text)))

\* s is mostly CJK and its last non-whitespace char is an ASCII '.' that
\* stands right behind a CJK ideograph.
ocr_period_ends(s) ==
    LET t == trim_end(s)
    IN /\ Len(t) >= 2
       /\ t[Len(t)] = 46  \* .
       /\ is_cjk_bmp(t[Len(t) - 1])
       /\ is_mostly_cjk(s)

\* C33: ends_with_sentence_boundary is true of every mostly-CJK buffer whose
\* last non-whitespace char is an ASCII '.' right behind a CJK ideograph,
\* whatever the byte width of the chars before it.
C33_OcrPeriodIsBoundary ==
    (pc = "ends_with_sentence_boundary" /\ ocr_period_ends(text)) => rule = "true"

\* The last non-whitespace char of s and the non-whitespace char before it
\* (None where there is none).
last_two_chars(s) ==
    LET t == SelectSeq(s, LAMBDA ch : ~is_whitespace(ch))
    IN [last |-> IF Len(t) >= 1 THEN t[Len(t)] ELSE None,
        prev |-> IF Len(t) >= 2 THEN t[Len(t) - 1] ELSE None]

\* C34 (as claimed): for every closer of the dialogue-closer set or of the
\* bracket-pair table, a buffer whose last non-whitespace char is that closer
\* and whose non-whitespace char before it is a strong terminator is a strong
\* sentence boundary.
C34_CloserAfterTerminatorIsBoundary ==
    (/\ pc = "ends_with_sentence_boundary"
     /\ last_two_chars(text).last \in AllClosers
     /\ is_strong_sentence_end(last_two_chars(text).prev))
    => rule = "true"

\* C35: a line that begins with the bonus-chapter prefix 番外, has more than
\* 15 chars behind the prefix and matches no other heading pattern is not a
\* strong title heading.
C35_BonusPrefixNeedsShortSuffix ==
    (/\ pc = "is_title_heading_line"
     /\ starts_with(trim(text), BONUS_PREFIX)
     /\ Len(trim(text)) - Len(BONUS_PREFIX) > 15
     /\ ~chapter_marker_scan(trim(text)))
    => rule = "false"

\* Some phrase of 1 to MAX_PHRASE_LEN tokens stands MIN_REPEATS times in a
\* row somewhere in ts.
has_repeated_phrase(ts) ==
    \E len \in 1..MAX_PHRASE_LEN :
      \E start \in 1..Len(ts) :
        /\ start + MIN_REPEATS * len - 1 <= Len(ts)
        /\ \A m \in 1..(MIN_REPEATS - 1) :
             SubSeq(ts, start + m * len, start + m * len + len - 1)
               = SubSeq(ts, start, start + len - 1)

\* C36: after the phrase-level collapse of a line no phrase of 1 to 8 tokens
\* is left repeated 3 or more times in a row anywhere in the line.
C36_NoRepeatedPhraseLeft ==
    pc = "collapse_repeated_word_sequences" => ~has_repeated_phrase(segments)

\* The shortest period of a non-empty token t: the least p that divides
\* Len(t) with t made of copies of its first p chars.
shortest_period(t) ==
    MinOf({p \in 1..Len(t) :
             /\ Len(t) % p = 0
             /\ \A k \in 1..Len(t) : t[k] = t[((k - 1) % p) + 1]})

\* C37: the token-level collapse changes a token only if the token is 3 or
\* more copies of a unit whose shortest period is 4 to 10 chars; a token made
\* of copies of a shorter unit (哈 any number of times) is left as it is.
C37_ShortUnitTokensIntact ==
    (pc = "collapse_repeated_token" /\ result # text)
    => /\ shortest_period(text) \in 4..10
       /\ Len(text) \div shortest_period(text) >= 3

\* The texts of ss, one behind the other.
concatenated(ss) == join(ss, <<>>)

\* The normalized texts of the non-blank lines among the first k lines, one
\* behind the other.
normalized_text_of_lines(k) ==
    concatenated([j \in 1..k |-> IF blank_line(lines[j]) THEN <<>>
                                 ELSE standalone_text(lines[j])])

\* C38: the driver loses, duplicates and reorders no text: after any number
\* of lines the segments followed by the buffer are, concatenated, the
\* normalized texts of the non-blank lines processed so far in input order,
\* and once the call has returned the segments alone are those of all lines.
C38_TextConserved ==
    /\ pc = "loop" => concatenated(segments) \o buffer = normalized_text_of_lines(i)
    /\ (pc = "done" /\ ~all_whitespace(text))
       => concatenated(segments) = normalized_text_of_lines(Len(lines))

\* The call on 他說， / 「你好 / ────────── has returned: the first two lines
\* were merged into one segment and the divider follows as a segment of its own.
C38_Witness ==
    /\ pc = "done"
    /\ lines = <<LineHeSaidComma, LineOpenQuote, LineDivider>>
    /\ segments = <<LineHeSaidComma \o LineOpenQuote, LineDivider>>

\* The counters a fresh scan of s gives: reset(), then update(s).
scanned_from_start(s) ==
    IF engine = "lib" THEN DialogState_update(DialogState_reset(dialog_state), s)
    ELSE DialogState_update_helper(DialogState_reset(dialog_state), s)

\* C39: after any line the six nesting counters are those a reset followed
\* by one scan of the buffer from its start gives.
C39_CountersDescribeBuffer ==
    (pc = "loop" /\ i >= 1) => dialog_state = scanned_from_start(buffer)

\* The line ends, once normalized, in one of 。！？!?
ends_in_strong_terminator(l) ==
    is_strong_sentence_end(last_char(trim_end(line_text_of(l))))

\* One iteration of the loop of reflow_helper.rs with the strong-terminated-
\* line rule tried before the short-heading rule instead of behind it.
reflow_line_strong_first(st, raw_line, pdf_header) ==
    LET heading_first == reflow_line_helper(st, raw_line, pdf_header)
    IN IF /\ heading_first.rule \in {"short_heading", "short_heading_split"}
          /\ st.buffer # <<>>
          /\ ends_in_strong_terminator(raw_line)
       THEN append_line_and_flush(st, line_text_of(raw_line), "strong_line")
       ELSE heading_first

\* C40: no normalized line is both short-heading-like and ends in a strong
\* terminator, so the loop of reflow_helper.rs leaves the same segments,
\* buffer and counters whichever of the short-heading rule and the
\* strong-terminated-line rule it tries first.
C40_HeadingAndStrongLineDisjoint ==
    /\ (pc = "loop" /\ i < Len(lines))
       => ~(/\ heading_like_line(line_text_of(lines[i + 1]))
            /\ ends_in_strong_terminator(lines[i + 1]))
    /\ (pc = "loop" /\ i < Len(lines) /\ engine = "helper")
       => reflow_line_strong_first(driver_state, lines[i + 1], add_pdf_page_header)
            = next_outcome

\* reflow_helper.rs has handled the short line 「你好！ (4 chars, no heading
\* only because of its ！) by the strong-terminated-line rule.
C40_Witness ==
    /\ pc = "loop" /\ engine = "helper" /\ i >= 2
    /\ lines[i] = LineShout
    /\ rule = "strong_line"
    /\ ~heading_like_line(line_text_of(lines[i]))

====
